---- MODULE Spec2Model ----
(***************************************************************************)
(* Order settlement and fulfilment pipeline of the buyTree backend         *)
(* (order controller): createOrder, verifyPayment, updateOrderStatus and   *)
(* confirmDelivery, over the orders / order_items / products /             *)
(* order_status_history / cart_items tables and the Paystack gateway, and   *)
(* the cart controller; and the storefront's CartProvider, which hands a   *)
(* guest's cart over to the server cart after a login.                     *)
(*                                                                         *)
(* Money is in whole naira.  The catalogue prices are multiples of 20, so  *)
(* that 5% of every total is a whole number and `x * 0.05` is modelled     *)
(* exactly by (x * 5) \div 100 in the pipeline.  The binary floating-point *)
(* arithmetic of the fee on other whole-naira totals is modelled on its    *)
(* own (SpecFee).                                                          *)
(*                                                                         *)
(* A database transaction (BEGIN .. COMMIT / ROLLBACK) is modelled by a    *)
(* per-request write buffer that is applied to the tables in one step at   *)
(* COMMIT and dropped at ROLLBACK.  The only statement of a transaction    *)
(* that reads a row it also writes is a relative UPDATE, evaluated against *)
(* the committed row at COMMIT: under READ COMMITTED a second writer of    *)
(* the row waits for the first writer's COMMIT and then sees its value.    *)
(* Row ids are handed out at COMMIT (a renaming of the serial ids).        *)
(*                                                                         *)
(* emailService is outside the controller: a call of                       *)
(* sendOrderStatusUpdate either dispatches its notification, which is then *)
(* recorded in sent, or throws.  Requests carry no notes or feedback.      *)
(***************************************************************************)
EXTENDS Integers, Sequences, FiniteSets, TLC

VARIABLES
    now,                 \* Date.now() / CURRENT_TIMESTAMP; all requests fall in one tick
    quantity_available,  \* products.quantity_available, by product id
    cart,                \* cart_items of each buyer's cart
    gateway,             \* Paystack: the transactions it holds, by reference
    orders,              \* orders table, in insertion order (id = index)
    order_items,         \* order_items table, in insertion order
    history,             \* order_status_history table, in insertion order
    decremented,         \* ghost: units subtracted from a product for a reference
    sent,                \* emailService: the status notifications dispatched so far
    createReq,           \* the createOrder request and its response
    verifyReq,           \* in-flight verifyPayment requests
    updateReq,           \* in-flight updateOrderStatus requests
    confirmReq,          \* in-flight confirmDelivery requests
    feeCalc,             \* the platform fee of one checkout, at its two sites
    cartReq,             \* in-flight addToCart requests
    cartContext          \* the storefront's CartProvider and the browser's localStorage

vars == <<now, quantity_available, cart, gateway, orders, order_items, history,
          decremented, sent, createReq, verifyReq, updateReq, confirmReq,
          feeCalc, cartReq, cartContext>>

\* The state of the order pipeline.
pipelineVars ==
    <<now, quantity_available, cart, gateway, orders, order_items, history,
      decremented, sent, createReq, verifyReq, updateReq, confirmReq>>

dbVars == <<quantity_available, cart, orders, order_items, history, decremented>>

(***************************************************************************)
(* Bounds of the model.                                                    *)
(***************************************************************************)
MaxStock == 1
NumVerify == 2
NumUpdate == 2
NumConfirm == 1
MaxHistory == 4
MaxIntents == 2
MaxOverMinimum == 30
NumCart == 2
MaxGuestQuantity == 2

(***************************************************************************)
(* Program constants.                                                      *)
(***************************************************************************)
MinimumOrderValue == 4000
PlatformFeePercent == 5
EstimatedDeliveryDays == 7
PayoutDelayDays == 1

(***************************************************************************)
(* Tables that no modelled operation writes: users, sellers, products.     *)
(***************************************************************************)
Buyers == {1, 2}
sellers == <<[id |-> 1, user_id |-> 3], [id |-> 2, user_id |-> 4]>>
products ==
    <<[id |-> 1, seller_id |-> 1, price |-> 2500, deleted_at |-> "null"],
      [id |-> 2, seller_id |-> 2, price |-> 4000, deleted_at |-> "null"],
      [id |-> 3, seller_id |-> 1, price |-> 1500, deleted_at |-> "null"],
      [id |-> 4, seller_id |-> 2, price |-> 4000, deleted_at |-> "2024-01-01"]>>
Users == Buyers \cup {sellers[i].user_id : i \in DOMAIN sellers}
SellerIds == {sellers[i].id : i \in DOMAIN sellers}
ProductIds == {products[i].id : i \in DOMAIN products}
Refs == {<<0, userId>> : userId \in Buyers}

VerifyReqs == 1..NumVerify
UpdateReqs == 1..NumUpdate
ConfirmReqs == 1..NumConfirm
CartReqs == 1..NumCart

RECURSIVE SumSeq(_)
SumSeq(s) == IF s = <<>> THEN 0 ELSE Head(s) + SumSeq(Tail(s))

RECURSIVE FirstError(_)
FirstError(s) ==
    IF s = <<>> THEN "ok"
    ELSE IF Head(s) # "ok" THEN Head(s) ELSE FirstError(Tail(s))

(***************************************************************************)
(* createOrder (checkout): revalidates the request body against sellers    *)
(* and products and hands the intent to the gateway.  Nothing is stored.   *)
(* A property the body does not carry is a field the record does not have; *)
(* the empty string is the falsy value of a delivery field.                *)
(***************************************************************************)
DeliveryDetails ==
    [name |-> "Ada", phone |-> "0800", address |-> "Lagos", notes |-> "Call first"]

\* req.body.orders of the well-formed requests
\* ([{sellerId, items: [{productId, quantity, price}]}]).
CheckoutOrders ==
    { <<[sellerId |-> 1,
         items |-> <<[productId |-> 1, quantity |-> 1, price |-> 2500],
                     [productId |-> 3, quantity |-> 1, price |-> 1500]>>],
        [sellerId |-> 2,
         items |-> <<[productId |-> 2, quantity |-> 1, price |-> 4000]>>]>>,
      <<[sellerId |-> 2,
         items |-> <<[productId |-> 2, quantity |-> 1, price |-> 4000]>>]>>,
      <<[sellerId |-> 1,
         items |-> <<[productId |-> 1, quantity |-> 2, price |-> 2500]>>]>>,
      <<[sellerId |-> 1,
         items |-> <<[productId |-> 1, quantity |-> 1, price |-> 2500]>>]>>,
      <<[sellerId |-> 2,
         items |-> <<[productId |-> 1, quantity |-> 2, price |-> 2500]>>]>>,
      <<[sellerId |-> 3,
         items |-> <<[productId |-> 2, quantity |-> 1, price |-> 4000]>>]>> }

\* Request bodies ({orders, deliveryDetails}).
CheckoutBodies ==
    {[orders |-> o, deliveryDetails |-> DeliveryDetails] : o \in CheckoutOrders}

\* Further request bodies: parts missing or empty, prices the client made
\* up, a deleted product, a stock the shelf cannot cover, two shops of which
\* one stays under the minimum, and two shops with one fault each.
MalformedBodies ==
    { [deliveryDetails |-> DeliveryDetails],
      [orders |-> <<>>, deliveryDetails |-> DeliveryDetails],
      [orders |-> <<[sellerId |-> 2,
            items |-> <<[productId |-> 2, quantity |-> 1, price |-> 4000]>>]>>],
      [orders |-> <<[sellerId |-> 2,
            items |-> <<[productId |-> 2, quantity |-> 1, price |-> 4000]>>]>>,
       deliveryDetails |-> [name |-> "Ada", address |-> "Lagos"]],
      [orders |-> <<[sellerId |-> 2,
            items |-> <<[productId |-> 2, quantity |-> 1, price |-> 4000]>>]>>,
       deliveryDetails |-> [name |-> "", phone |-> "0800", address |-> "Lagos"]],
      [orders |-> <<[sellerId |-> 1, items |-> <<>>]>>,
       deliveryDetails |-> DeliveryDetails],
      [orders |-> <<[sellerId |-> 1]>>, deliveryDetails |-> DeliveryDetails] }

RepricedBodies ==
    { [orders |-> <<[sellerId |-> 1,
            items |-> <<[productId |-> 1, quantity |-> 2, price |-> 20]>>]>>,
       deliveryDetails |-> DeliveryDetails],
      [orders |-> <<[sellerId |-> 1,
            items |-> <<[productId |-> 1, quantity |-> 1, price |-> 4000]>>]>>,
       deliveryDetails |-> DeliveryDetails] }

StaleBodies ==
    { [orders |-> <<[sellerId |-> 2,
            items |-> <<[productId |-> 4, quantity |-> 1, price |-> 4000]>>]>>,
       deliveryDetails |-> DeliveryDetails],
      [orders |-> <<[sellerId |-> 2,
            items |-> <<[productId |-> 2, quantity |-> MaxStock + 1,
                         price |-> 4000]>>]>>,
       deliveryDetails |-> DeliveryDetails],
      [orders |-> <<[sellerId |-> 1,
            items |-> <<[productId |-> 1, quantity |-> 1, price |-> 2500]>>],
                     [sellerId |-> 2,
            items |-> <<[productId |-> 2, quantity |-> 1, price |-> 4000]>>]>>,
       deliveryDetails |-> DeliveryDetails],
      [orders |-> <<[sellerId |-> 2,
            items |-> <<[productId |-> 2, quantity |-> MaxStock + 1,
                         price |-> 4000]>>],
                     [sellerId |-> 3,
            items |-> <<[productId |-> 2, quantity |-> 1, price |-> 4000]>>]>>,
       deliveryDetails |-> DeliveryDetails] }

CheckoutInputs ==
    CheckoutBodies \cup MalformedBodies \cup RepricedBodies \cup StaleBodies

\* !orders || !Array.isArray(orders) || orders.length === 0
OrdersInvalid(body) ==
    \/ "orders" \notin DOMAIN body
    \/ body.orders = <<>>

\* !deliveryDetails || !deliveryDetails.name || !deliveryDetails.phone ||
\* !deliveryDetails.address
DeliveryInvalid(body) ==
    \/ "deliveryDetails" \notin DOMAIN body
    \/ \E field \in {"name", "phone", "address"} :
            \/ field \notin DOMAIN body.deliveryDetails
            \/ body.deliveryDetails[field] = ""

\* The product lookup, were it to leave the seller out of the WHERE clause.
ProductRowsOfAnySeller(productId, sellerId) ==
    {i \in DOMAIN products :
        products[i].id = productId /\ products[i].deleted_at = "null"}

\* SELECT ... FROM products WHERE id = $1 AND seller_id = $2
\*                            AND deleted_at IS NULL
ProductRows(productId, sellerId) ==
    {i \in DOMAIN products :
        /\ products[i].id = productId
        /\ products[i].seller_id = sellerId
        /\ products[i].deleted_at = "null"}

ProductRow(productId, sellerId) ==
    products[CHOOSE i \in ProductRows(productId, sellerId) : TRUE]

ItemError(sellerId, item) ==
    IF ProductRows(item.productId, sellerId) = {} THEN "product_not_found"
    ELSE IF quantity_available[item.productId] < item.quantity
         THEN "insufficient_stock"
    ELSE "ok"

\* The line, were it priced as the client says.
ValidatedItemClientPrice(sellerId, item) ==
    LET product == ProductRow(item.productId, sellerId)
    IN  [productId |-> product.id,
         productPrice |-> item.price,
         quantity |-> item.quantity,
         subtotal |-> item.price * item.quantity]

ValidatedItem(sellerId, item) ==
    LET product == ProductRow(item.productId, sellerId)
    IN  [productId |-> product.id,
         productPrice |-> product.price,
         quantity |-> item.quantity,
         subtotal |-> product.price * item.quantity]

OrderTotal(order) ==
    SumSeq([i \in DOMAIN order.items |->
                ValidatedItem(order.sellerId, order.items[i]).subtotal])

\* The minimum, were an order of exactly the minimum value turned away too.
AtOrBelowMinimum(orderTotal) == orderTotal <= MinimumOrderValue

\* orderTotal < 4000
BelowMinimum(orderTotal) == orderTotal < MinimumOrderValue

\* `for (const item of items)` throws when the group carries no items.
GroupError(order) ==
    IF order.sellerId \notin SellerIds THEN "seller_not_found"
    ELSE IF "items" \notin DOMAIN order THEN "failed_to_create_order"
    ELSE LET itemError ==
                FirstError([i \in DOMAIN order.items |->
                                ItemError(order.sellerId, order.items[i])])
         IN  IF itemError # "ok" THEN itemError
             ELSE IF BelowMinimum(OrderTotal(order)) THEN "minimum_order"
             ELSE "ok"

CreateOrderError(body) ==
    IF OrdersInvalid(body) THEN "invalid_order_data"
    ELSE IF DeliveryInvalid(body) THEN "delivery_details_required"
    ELSE FirstError([g \in DOMAIN body.orders |-> GroupError(body.orders[g])])

OrderDetail(order) ==
    [sellerId |-> order.sellerId,
     orderTotal |-> OrderTotal(order),
     items |-> [i \in DOMAIN order.items |->
                    ValidatedItem(order.sellerId, order.items[i])]]

PlatformFee(amount) == (amount * PlatformFeePercent) \div 100

Metadata(userId, body) ==
    LET orderDetails == [g \in DOMAIN body.orders |-> OrderDetail(body.orders[g])]
        totalAmount ==
            SumSeq([g \in DOMAIN body.orders |-> orderDetails[g].orderTotal])
    IN  [userId |-> userId,
         orders |-> orderDetails,
         deliveryDetails |-> body.deliveryDetails,
         totalAmount |-> totalAmount,
         platformFee |-> PlatformFee(totalAmount)]

Reference(userId) == <<now, userId>>

GatewayHas(reference) == \E t \in gateway : t.reference = reference
GatewayTxs(reference) == {t \in gateway : t.reference = reference}

\* res.status(...) of each early return and of the catch block.
StatusCode(error) ==
    CASE error \in {"invalid_order_data", "delivery_details_required",
                    "insufficient_stock", "minimum_order"} -> 400
      [] error \in {"seller_not_found", "product_not_found"} -> 404
      [] error = "failed_to_create_order" -> 500
      [] OTHER -> 200

NoCreateResponse == [success |-> FALSE, status |-> 0, message |-> "none",
                     reference |-> <<>>, amount |-> 0]
NoBody == [orders |-> <<>>]
CreateIdle ==
    [pc |-> "idle", userId |-> 0, body |-> NoBody, called |-> FALSE,
     res |-> NoCreateResponse]
CreateBusy == createReq.pc # "idle"

\* What the handler has done when it answers: the first failing check, else
\* the call of the gateway, which ends in the gateway's error for a
\* reference it holds and refuses, or in the new session.
CreateStarted(userId, body, accepts) ==
    LET error == CreateOrderError(body)
        request == [CreateIdle EXCEPT !.pc = "done", !.userId = userId,
                                      !.body = body]
    IN  IF error # "ok"
        THEN [request EXCEPT
                !.res = [NoCreateResponse EXCEPT
                            !.status = StatusCode(error), !.message = error]]
        ELSE IF GatewayHas(Reference(userId)) /\ ~accepts
        THEN [request EXCEPT
                !.called = TRUE,
                !.res = [NoCreateResponse EXCEPT
                            !.status = 500, !.message = "failed_to_create_order"]]
        ELSE [request EXCEPT
                !.called = TRUE,
                !.res = [success |-> TRUE, status |-> 200,
                         message |-> "Order created successfully",
                         reference |-> Reference(userId),
                         amount |-> Metadata(userId, body).totalAmount]]

\* The session the gateway opens: amount in kobo, reference, metadata.
Session(userId, body) ==
    [reference |-> Reference(userId),
     amount |-> Metadata(userId, body).totalAmount * 100,
     metadata |-> Metadata(userId, body),
     status |-> "pending"]

\* The checkout, were it to clear the buyer's cart already.
CreateOrderClearingCart(userId, body, accepts) ==
    /\ ~CreateBusy
    /\ createReq' = CreateStarted(userId, body, accepts)
    /\ gateway' = IF CreateStarted(userId, body, accepts).res.success
                  THEN gateway \cup {Session(userId, body)}
                  ELSE gateway
    /\ cart' = IF CreateStarted(userId, body, accepts).res.success
               THEN [cart EXCEPT ![userId] = {}]
               ELSE cart
    /\ UNCHANGED <<now, feeCalc, cartReq, cartContext, sent, quantity_available, orders, order_items, history,
                   decremented, verifyReq, updateReq, confirmReq>>

\* The whole handler.  Whether the gateway accepts a reference it already
\* holds is the gateway's choice (accepts).
CreateOrder(userId, body, accepts) ==
    /\ ~CreateBusy
    /\ createReq' = CreateStarted(userId, body, accepts)
    /\ gateway' = IF CreateStarted(userId, body, accepts).res.success
                  THEN gateway \cup {Session(userId, body)}
                  ELSE gateway
    /\ UNCHANGED <<now, feeCalc, cartReq, cartContext, sent, dbVars, verifyReq, updateReq, confirmReq>>

\* The response has gone out.
CreateRespond ==
    /\ CreateBusy
    /\ createReq' = CreateIdle
    /\ UNCHANGED <<now, feeCalc, cartReq, cartContext, sent, gateway, dbVars, verifyReq, updateReq, confirmReq>>

\* The buyer completes or abandons a hosted payment session.
GatewayPay(reference, outcome) ==
    \E t \in GatewayTxs(reference) :
        /\ t.status = "pending"
        /\ gateway' = (gateway \ {t}) \cup {[t EXCEPT !.status = outcome]}
        /\ UNCHANGED <<now, feeCalc, cartReq, cartContext, sent, createReq, dbVars, verifyReq, updateReq, confirmReq>>

(***************************************************************************)
(* verifyPayment (settlement).  Every await of the handler is one step.    *)
(***************************************************************************)
NoMetadata ==
    [userId |-> 0, orders |-> <<>>,
     deliveryDetails |-> [name |-> "", phone |-> "", address |-> ""],
     totalAmount |-> 0, platformFee |-> 0]
NoTx == [orders |-> <<>>, items |-> <<>>, stock |-> <<>>, cart |-> FALSE]
NoResponse == [success |-> FALSE, message |-> "none", orders |-> {}]

VerifyIdle ==
    [pc |-> "idle", reference |-> <<>>, metadata |-> NoMetadata, gi |-> 0, ii |-> 0,
     tx |-> NoTx, called |-> FALSE, res |-> NoResponse]

\* The lookup, were it to match the reference against the wrong column.
ExistingOrdersByOrderNumber(reference) ==
    {[orderId |-> orders[i].id, orderNumber |-> orders[i].order_number] :
        i \in {j \in DOMAIN orders : orders[j].order_number = reference}}

\* SELECT o.id, o.order_number FROM orders o WHERE o.paystack_reference = $1
ExistingOrders(reference) ==
    {[orderId |-> orders[i].id, orderNumber |-> orders[i].order_number] :
        i \in {j \in DOMAIN orders : orders[j].paystack_reference = reference}}

VerifyBusy(v) == verifyReq[v].pc # "idle"

\* The idempotency check and, when orders exist, the early response.
VerifyStart(v, reference) ==
    /\ ~VerifyBusy(v)
    /\ verifyReq' = [verifyReq EXCEPT ![v] =
            IF ExistingOrders(reference) # {}
            THEN [VerifyIdle EXCEPT
                    !.pc = "done", !.reference = reference,
                    !.res = [success |-> TRUE,
                             message |-> "Payment already verified",
                             orders |-> ExistingOrders(reference)]]
            ELSE [VerifyIdle EXCEPT !.pc = "gateway", !.reference = reference]]
    /\ UNCHANGED <<now, feeCalc, cartReq, cartContext, sent, createReq, gateway, dbVars, updateReq, confirmReq>>

\* The check of the answer, were every answer taken for a payment.
PaymentAnyStatus(t) == TRUE

\* !data.status || data.data.status !== 'success', negated
PaymentSucceeded(t) == t.status = "success"

\* GET /transaction/verify/:reference and the check of its answer.
VerifyGateway(v) ==
    LET r == verifyReq[v]
    IN  /\ r.pc = "gateway"
        /\ IF ~GatewayHas(r.reference)
           THEN verifyReq' = [verifyReq EXCEPT ![v] =
                    [r EXCEPT !.pc = "done", !.called = TRUE,
                        !.res = [success |-> FALSE,
                                 message |-> "Failed to verify payment",
                                 orders |-> {}]]]
           ELSE \E t \in GatewayTxs(r.reference) :
                    verifyReq' = [verifyReq EXCEPT ![v] =
                        IF ~PaymentSucceeded(t)
                        THEN [r EXCEPT !.pc = "done", !.called = TRUE,
                                !.res = [success |-> FALSE,
                                         message |-> "Payment verification failed",
                                         orders |-> {}]]
                        ELSE [r EXCEPT !.pc = "begin", !.called = TRUE,
                                !.metadata = t.metadata]]
        /\ UNCHANGED <<now, feeCalc, cartReq, cartContext, sent, createReq, gateway, dbVars, updateReq, confirmReq>>

\* BEGIN
VerifyBegin(v) ==
    LET r == verifyReq[v]
    IN  /\ r.pc = "begin"
        /\ verifyReq' = [verifyReq EXCEPT ![v] =
                [r EXCEPT !.pc = IF r.metadata.orders = <<>> THEN "cart" ELSE "order",
                          !.gi = 1, !.tx = NoTx]]
        /\ UNCHANGED <<now, feeCalc, cartReq, cartContext, sent, createReq, gateway, dbVars, updateReq, confirmReq>>

\* The seller amount, were the fee not deducted.
SellerAmountGross(orderTotal) == orderTotal

SellerAmount(orderTotal) == orderTotal - PlatformFee(orderTotal)

OrderNumber(sellerId) == <<now, sellerId>>

\* deliveryDetails.notes || null
DeliveryNotes(deliveryDetails) ==
    IF "notes" \in DOMAIN deliveryDetails /\ deliveryDetails.notes # ""
    THEN deliveryDetails.notes ELSE "null"

\* The order, were it inserted as not yet paid.
NewOrderUnpaid(reference, metadata, orderDetail) ==
    [id |-> 0,
     order_number |-> OrderNumber(orderDetail.sellerId),
     buyer_id |-> metadata.userId,
     seller_id |-> orderDetail.sellerId,
     total_amount |-> orderDetail.orderTotal,
     platform_fee |-> PlatformFee(orderDetail.orderTotal),
     seller_amount |-> SellerAmount(orderDetail.orderTotal),
     status |-> "pending",
     payment_status |-> "pending",
     paystack_reference |-> reference,
     delivery_name |-> metadata.deliveryDetails.name,
     delivery_phone |-> metadata.deliveryDetails.phone,
     delivery_address |-> metadata.deliveryDetails.address,
     notes |-> DeliveryNotes(metadata.deliveryDetails),
     estimated_delivery_date |-> {now + EstimatedDeliveryDays},
     ready_for_pickup_at |-> {},
     shipped_at |-> {},
     delivered_at |-> {},
     payout_date |-> {},
     payout_status |-> "default",
     updated_at |-> now]

\* The row of INSERT INTO orders (...); columns it leaves out take their default.
NewOrder(reference, metadata, orderDetail) ==
    [id |-> 0,
     order_number |-> OrderNumber(orderDetail.sellerId),
     buyer_id |-> metadata.userId,
     seller_id |-> orderDetail.sellerId,
     total_amount |-> orderDetail.orderTotal,
     platform_fee |-> PlatformFee(orderDetail.orderTotal),
     seller_amount |-> SellerAmount(orderDetail.orderTotal),
     status |-> "pending",
     payment_status |-> "paid",
     paystack_reference |-> reference,
     delivery_name |-> metadata.deliveryDetails.name,
     delivery_phone |-> metadata.deliveryDetails.phone,
     delivery_address |-> metadata.deliveryDetails.address,
     notes |-> DeliveryNotes(metadata.deliveryDetails),
     estimated_delivery_date |-> {now + EstimatedDeliveryDays},
     ready_for_pickup_at |-> {},
     shipped_at |-> {},
     delivered_at |-> {},
     payout_date |-> {},
     payout_status |-> "default",
     updated_at |-> now]

\* INSERT INTO orders ... RETURNING id, order_number
VerifyInsertOrder(v) ==
    LET r == verifyReq[v]
        orderDetail == r.metadata.orders[r.gi]
        last == r.gi = Len(r.metadata.orders)
    IN  /\ r.pc = "order"
        /\ verifyReq' = [verifyReq EXCEPT ![v] =
                [r EXCEPT
                    !.tx.orders = Append(@, NewOrder(r.reference, r.metadata, orderDetail)),
                    !.ii = 1,
                    !.gi = IF orderDetail.items = <<>> THEN @ + 1 ELSE @,
                    !.pc = IF orderDetail.items # <<>> THEN "item"
                           ELSE IF last THEN "cart" ELSE "order"]]
        /\ UNCHANGED <<now, feeCalc, cartReq, cartContext, sent, createReq, gateway, dbVars, updateReq, confirmReq>>

\* The INSERT into order_items, were it to store the unit price as the subtotal.
VerifyInsertItemUnitPrice(v) ==
    LET r == verifyReq[v]
        item == r.metadata.orders[r.gi].items[r.ii]
    IN  /\ r.pc = "item"
        /\ verifyReq' = [verifyReq EXCEPT ![v] =
                [r EXCEPT
                    !.tx.items = Append(@,
                        [order_ix |-> Len(r.tx.orders),
                         product_id |-> item.productId,
                         product_price |-> item.productPrice,
                         quantity |-> item.quantity,
                         subtotal |-> item.productPrice]),
                    !.pc = "stock"]]
        /\ UNCHANGED <<now, feeCalc, cartReq, cartContext, sent, createReq, gateway, dbVars, updateReq, confirmReq>>

\* INSERT INTO order_items (...)
VerifyInsertItem(v) ==
    LET r == verifyReq[v]
        item == r.metadata.orders[r.gi].items[r.ii]
    IN  /\ r.pc = "item"
        /\ verifyReq' = [verifyReq EXCEPT ![v] =
                [r EXCEPT
                    !.tx.items = Append(@,
                        [order_ix |-> Len(r.tx.orders),
                         product_id |-> item.productId,
                         product_price |-> item.productPrice,
                         quantity |-> item.quantity,
                         subtotal |-> item.subtotal]),
                    !.pc = "stock"]]
        /\ UNCHANGED <<now, feeCalc, cartReq, cartContext, sent, createReq, gateway, dbVars, updateReq, confirmReq>>

\* UPDATE products SET quantity_available = quantity_available - $1 WHERE id = $2
StockUpdate(item) == [product_id |-> item.productId, quantity |-> item.quantity]

VerifyUpdateStock(v) ==
    LET r == verifyReq[v]
        items == r.metadata.orders[r.gi].items
        lastItem == r.ii = Len(items)
        lastOrder == r.gi = Len(r.metadata.orders)
    IN  /\ r.pc = "stock"
        /\ verifyReq' = [verifyReq EXCEPT ![v] =
                [r EXCEPT
                    !.tx.stock = Append(@, StockUpdate(items[r.ii])),
                    !.ii = IF lastItem THEN 1 ELSE @ + 1,
                    !.gi = IF lastItem THEN @ + 1 ELSE @,
                    !.pc = IF ~lastItem THEN "item"
                           ELSE IF lastOrder THEN "cart" ELSE "order"]]
        /\ UNCHANGED <<now, feeCalc, cartReq, cartContext, sent, createReq, gateway, dbVars, updateReq, confirmReq>>

\* DELETE FROM cart_items WHERE cart_id IN (SELECT id FROM carts WHERE user_id = $1)
VerifyClearCart(v) ==
    LET r == verifyReq[v]
    IN  /\ r.pc = "cart"
        /\ verifyReq' = [verifyReq EXCEPT ![v] =
                [r EXCEPT !.tx.cart = TRUE, !.pc = "commit"]]
        /\ UNCHANGED <<now, feeCalc, cartReq, cartContext, sent, createReq, gateway, dbVars, updateReq, confirmReq>>

\* Units the buffered stock updates take from a product.
RECURSIVE Subtracted(_, _)
Subtracted(stock, productId) ==
    IF stock = <<>> THEN 0
    ELSE (IF Head(stock).product_id = productId THEN Head(stock).quantity ELSE 0)
         + Subtracted(Tail(stock), productId)

\* What COMMIT makes of the buffered writes.
CommittedOrders(tx, lastId) ==
    [k \in 1..Len(tx.orders) |-> [tx.orders[k] EXCEPT !.id = lastId + k]]

CommittedItems(tx, lastId) ==
    [k \in 1..Len(tx.items) |->
        [order_id |-> lastId + tx.items[k].order_ix,
         product_id |-> tx.items[k].product_id,
         product_price |-> tx.items[k].product_price,
         quantity |-> tx.items[k].quantity,
         subtotal |-> tx.items[k].subtotal]]

\* The stock, were the UPDATE of products left out of the transaction.
CommittedStockUntouched(tx, stock) == stock

\* UPDATE products SET quantity_available = quantity_available - $1 WHERE id = $2
CommittedStock(tx, stock) ==
    [p \in ProductIds |-> stock[p] - Subtracted(tx.stock, p)]

\* The carts, were the DELETE left out of the transaction.
CommittedCartKept(tx, userId, carts) == carts

\* DELETE FROM cart_items WHERE cart_id IN (SELECT id FROM carts WHERE user_id = $1)
CommittedCart(tx, userId, carts) ==
    IF tx.cart THEN [carts EXCEPT ![userId] = {}] ELSE carts

\* The buffered writes reach the tables.
WriteThrough(tx, reference, userId) ==
    /\ orders' = orders \o CommittedOrders(tx, Len(orders))
    /\ order_items' = order_items \o CommittedItems(tx, Len(orders))
    /\ quantity_available' = CommittedStock(tx, quantity_available)
    /\ decremented' = [decremented EXCEPT ![reference] =
            [p \in ProductIds |-> @[p] + Subtracted(tx.stock, p)]]
    /\ cart' = CommittedCart(tx, userId, cart)

\* COMMIT and the success response.
VerifyCommit(v) ==
    LET r == verifyReq[v]
        created == CommittedOrders(r.tx, Len(orders))
    IN  /\ r.pc = "commit"
        /\ WriteThrough(r.tx, r.reference, r.metadata.userId)
        /\ verifyReq' = [verifyReq EXCEPT ![v] =
                [r EXCEPT !.pc = "done", !.tx = NoTx,
                    !.res = [success |-> TRUE,
                             message |-> "Payment verified and orders created",
                             orders |-> {[orderId |-> created[k].id,
                                          orderNumber |-> created[k].order_number] :
                                            k \in DOMAIN created}]]]
        /\ UNCHANGED <<now, feeCalc, cartReq, cartContext, sent, createReq, gateway, history, updateReq, confirmReq>>

\* The buffered writes, were the transaction not rolled back.
NotRolledBack(tx) == tx

\* What ROLLBACK lets through of the buffered writes: nothing.
RolledBack(tx) == NoTx

\* The failure, were the orders inserted so far to stay in the table.
VerifyFailKeepingOrders(v) ==
    LET r == verifyReq[v]
    IN  /\ r.pc \in {"order", "item", "stock", "cart", "commit"}
        /\ WriteThrough([NoTx EXCEPT !.orders = r.tx.orders],
                        r.reference, r.metadata.userId)
        /\ verifyReq' = [verifyReq EXCEPT ![v] =
                [r EXCEPT !.pc = "done", !.tx = NoTx,
                    !.res = [success |-> FALSE,
                             message |-> "Failed to verify payment",
                             orders |-> {}]]]
        /\ UNCHANGED <<now, feeCalc, cartReq, cartContext, sent, createReq, gateway, history, updateReq, confirmReq>>

\* A statement of the transaction throws: ROLLBACK, rethrow, 500.
VerifyFail(v) ==
    LET r == verifyReq[v]
    IN  /\ r.pc \in {"order", "item", "stock", "cart", "commit"}
        /\ WriteThrough(RolledBack(r.tx), r.reference, r.metadata.userId)
        /\ verifyReq' = [verifyReq EXCEPT ![v] =
                [r EXCEPT !.pc = "done", !.tx = NoTx,
                    !.res = [success |-> FALSE,
                             message |-> "Failed to verify payment",
                             orders |-> {}]]]
        /\ UNCHANGED <<now, feeCalc, cartReq, cartContext, sent, createReq, gateway, history, updateReq, confirmReq>>

\* The response has gone out; the worker is free for the next request.
VerifyRespond(v) ==
    /\ verifyReq[v].pc = "done"
    /\ verifyReq' = [verifyReq EXCEPT ![v] = VerifyIdle]
    /\ UNCHANGED <<now, feeCalc, cartReq, cartContext, sent, createReq, gateway, dbVars, updateReq, confirmReq>>

(***************************************************************************)
(* updateOrderStatus (seller).  The row an UPDATE has written stays locked *)
(* until the transaction ends; another writer of the row waits.            *)
(***************************************************************************)
\* The workflow, were sellers still able to cancel a pending order.
statusWorkflowWithCancel ==
    [pending |-> {"processing", "cancelled"},
     processing |-> {"ready_for_pickup"},
     ready_for_pickup |-> {"in_transit"},
     in_transit |-> {"delivered"},
     delivered |-> {},
     cancelled |-> {}]

statusWorkflow ==
    [pending |-> {"processing"},
     processing |-> {"ready_for_pickup"},
     ready_for_pickup |-> {"in_transit"},
     in_transit |-> {"delivered"},
     delivered |-> {},
     cancelled |-> {}]

validStatuses ==
    {"pending", "processing", "ready_for_pickup", "in_transit", "delivered", "cancelled"}

RequestedStatuses == validStatuses \cup {"refunded"}

NoOrder ==
    [id |-> 0, order_number |-> <<>>, buyer_id |-> 0, seller_id |-> 0,
     total_amount |-> 0, platform_fee |-> 0, seller_amount |-> 0,
     status |-> "none", payment_status |-> "none", paystack_reference |-> <<>>,
     delivery_name |-> "", delivery_phone |-> "", delivery_address |-> "",
     notes |-> "null",
     estimated_delivery_date |-> {}, ready_for_pickup_at |-> {}, shipped_at |-> {},
     delivered_at |-> {}, payout_date |-> {}, payout_status |-> "none",
     updated_at |-> 0]
\* A response; allowed is the list of statuses a rejection message ends with.
NoUpdateResponse == [success |-> FALSE, message |-> "none", allowed |-> {}]

UpdateIdle ==
    [pc |-> "idle", userId |-> 0, orderId |-> 0, status |-> "none", sellerId |-> 0,
     order |-> NoOrder, updatedOrder |-> NoOrder, res |-> NoUpdateResponse]

UpdateBusy(u) == updateReq[u].pc # "idle"

UpdateDone(success, message) ==
    [UpdateIdle EXCEPT !.pc = "done",
        !.res = [NoUpdateResponse EXCEPT !.success = success, !.message = message]]

\* SELECT id FROM sellers WHERE user_id = $1
SellerRows(userId) == {i \in DOMAIN sellers : sellers[i].user_id = userId}

\* The status check and the seller lookup: where they leave the request.
UpdateStarted(userId, orderId, status) ==
    IF status \notin validStatuses THEN UpdateDone(FALSE, "Invalid status")
    ELSE IF SellerRows(userId) = {} THEN UpdateDone(FALSE, "Not a seller")
    ELSE [UpdateIdle EXCEPT
            !.pc = "read", !.userId = userId, !.orderId = orderId,
            !.status = status,
            !.sellerId = sellers[CHOOSE i \in SellerRows(userId) : TRUE].id]

UpdateStart(u, userId, orderId, status) ==
    /\ ~UpdateBusy(u)
    /\ Len(history) < MaxHistory
    /\ updateReq' = [updateReq EXCEPT ![u] = UpdateStarted(userId, orderId, status)]
    /\ UNCHANGED <<now, feeCalc, cartReq, cartContext, sent, createReq, gateway, dbVars, verifyReq, confirmReq>>

AllowedTransitions(status) ==
    IF status \in DOMAIN statusWorkflow THEN statusWorkflow[status] ELSE {}

\* The legality check, were it to accept every valid status.
TransitionUnchecked(current, status) == status \in validStatuses

\* The legality check of a requested status against the status read.
TransitionAllowed(current, status) == status \in AllowedTransitions(current)

\* The order lookup, were it by id alone.
OrderOfAnySeller(orderId, sellerId) == orderId \in DOMAIN orders

\* SELECT * FROM orders WHERE id = $1 AND seller_id = $2 finds a row.
OrderOfSeller(orderId, sellerId) ==
    orderId \in DOMAIN orders /\ orders[orderId].seller_id = sellerId

\* The rejection, were it to list every valid status.
TransitionRejectedListingAll(current, status) ==
    [UpdateDone(FALSE, "Cannot change status") EXCEPT !.res.allowed = validStatuses]

\* `Cannot change status from "${order.status}" to "${status}". Allowed
\* transitions: ${allowedTransitions.join(', ') || 'none (terminal state)'}`:
\* the empty list stands for 'none (terminal state)'.
TransitionRejected(current, status) ==
    [UpdateDone(FALSE, "Cannot change status") EXCEPT
        !.res.allowed = AllowedTransitions(current)]

\* SELECT * FROM orders WHERE id = $1 AND seller_id = $2, and the legality check.
UpdateRead(u) ==
    LET r == updateReq[u]
        found == OrderOfSeller(r.orderId, r.sellerId)
    IN  /\ r.pc = "read"
        /\ updateReq' = [updateReq EXCEPT ![u] =
                IF ~found THEN UpdateDone(FALSE, "Order not found")
                ELSE IF ~TransitionAllowed(orders[r.orderId].status, r.status)
                THEN TransitionRejected(orders[r.orderId].status, r.status)
                ELSE [r EXCEPT !.pc = "update", !.order = orders[r.orderId]]]
        /\ UNCHANGED <<now, feeCalc, cartReq, cartContext, sent, createReq, gateway, dbVars, verifyReq, confirmReq>>

\* An updateOrderStatus transaction has written the row and not ended.
RowLocked(orderId) ==
    \E u \in UpdateReqs :
        updateReq[u].pc \in {"history", "notify", "commit"} /\ updateReq[u].orderId = orderId

\* The seller's UPDATE, were it to store the request's notes on the order too.
StatusUpdateWithNotes(row, status) ==
    [row EXCEPT
        !.status = status,
        !.notes = "null",
        !.ready_for_pickup_at = IF status = "ready_for_pickup" THEN {now} ELSE @,
        !.shipped_at = IF status = "in_transit" THEN {now} ELSE @,
        !.delivered_at = IF status = "delivered" THEN {now} ELSE @,
        !.payout_date = IF status = "delivered" THEN {now + PayoutDelayDays} ELSE @,
        !.payout_status = IF status = "delivered" THEN "scheduled" ELSE @,
        !.updated_at = now]

\* UPDATE orders SET status = $1, <milestones> WHERE id = $2 AND seller_id = $3
StatusUpdate(row, status) ==
    [row EXCEPT
        !.status = status,
        !.ready_for_pickup_at = IF status = "ready_for_pickup" THEN {now} ELSE @,
        !.shipped_at = IF status = "in_transit" THEN {now} ELSE @,
        !.delivered_at = IF status = "delivered" THEN {now} ELSE @,
        !.payout_date = IF status = "delivered" THEN {now + PayoutDelayDays} ELSE @,
        !.payout_status = IF status = "delivered" THEN "scheduled" ELSE @,
        !.updated_at = now]

\* BEGIN; UPDATE orders ... RETURNING *
UpdateWrite(u) ==
    LET r == updateReq[u]
    IN  /\ r.pc = "update"
        /\ ~RowLocked(r.orderId)
        /\ updateReq' = [updateReq EXCEPT ![u] =
                [r EXCEPT !.pc = "history",
                          !.updatedOrder = StatusUpdate(orders[r.orderId], r.status)]]
        /\ UNCHANGED <<now, feeCalc, cartReq, cartContext, sent, createReq, gateway, dbVars, verifyReq, confirmReq>>

\* INSERT INTO order_status_history (...)
UpdateHistoryRow(r) ==
    [order_id |-> r.orderId, old_status |-> r.order.status, new_status |-> r.status,
     changed_by |-> r.userId, notes |-> "null"]

UpdateHistory(u) ==
    LET r == updateReq[u]
    IN  /\ r.pc = "history"
        /\ updateReq' = [updateReq EXCEPT ![u] =
                [r EXCEPT !.pc =
                    IF r.status \in {"ready_for_pickup", "in_transit", "delivered"}
                    THEN "notify" ELSE "commit"]]
        /\ UNCHANGED <<now, feeCalc, cartReq, cartContext, sent, createReq, gateway, dbVars, verifyReq, confirmReq>>

\* emailService.sendOrderStatusUpdate(order, status): the event kind and the
\* row handed over.
Notification(order, status) ==
    [order_id |-> order.id, status |-> status, order_status |-> order.status]

\* await emailService.sendOrderStatusUpdate(updatedOrder, status)
UpdateNotify(u) ==
    LET r == updateReq[u]
    IN  /\ r.pc = "notify"
        /\ sent' = sent \cup {Notification(r.updatedOrder, r.status)}
        /\ updateReq' = [updateReq EXCEPT ![u] = [r EXCEPT !.pc = "commit"]]
        /\ UNCHANGED <<now, feeCalc, cartReq, cartContext, createReq, gateway, dbVars, verifyReq, confirmReq>>

\* COMMIT and the success response.
UpdateCommit(u) ==
    LET r == updateReq[u]
    IN  /\ r.pc = "commit"
        /\ orders' = [orders EXCEPT ![r.orderId] = r.updatedOrder]
        /\ history' = Append(history, UpdateHistoryRow(r))
        /\ updateReq' = [updateReq EXCEPT ![u] =
                UpdateDone(TRUE, "Order status updated successfully")]
        /\ UNCHANGED <<now, feeCalc, cartReq, cartContext, sent, createReq, gateway, quantity_available, cart, order_items, decremented,
                       verifyReq, confirmReq>>

\* A statement of the transaction, or the notification, throws: ROLLBACK, 500.
UpdateFail(u) ==
    LET r == updateReq[u]
    IN  /\ r.pc \in {"update", "history", "notify", "commit"}
        /\ updateReq' = [updateReq EXCEPT ![u] =
                UpdateDone(FALSE, "Failed to update order status")]
        /\ UNCHANGED <<now, feeCalc, cartReq, cartContext, sent, createReq, gateway, dbVars, verifyReq, confirmReq>>

UpdateRespond(u) ==
    /\ updateReq[u].pc = "done"
    /\ updateReq' = [updateReq EXCEPT ![u] = UpdateIdle]
    /\ UNCHANGED <<now, feeCalc, cartReq, cartContext, sent, createReq, gateway, dbVars, verifyReq, confirmReq>>

(***************************************************************************)
(* confirmDelivery (buyer).  No transaction: each statement commits alone. *)
(***************************************************************************)
ConfirmIdle ==
    [pc |-> "idle", userId |-> 0, orderId |-> 0, order |-> NoOrder,
     res |-> NoUpdateResponse]

ConfirmBusy(c) == confirmReq[c].pc # "idle"

ConfirmDone(success, message) ==
    [ConfirmIdle EXCEPT !.pc = "done",
        !.res = [NoUpdateResponse EXCEPT !.success = success, !.message = message]]

\* The order lookup, were it by id alone.
OrderOfAnyBuyer(orderId, userId) == orderId \in DOMAIN orders

\* SELECT * FROM orders WHERE id = $1 AND buyer_id = $2 finds a row.
OrderOfBuyer(orderId, userId) ==
    orderId \in DOMAIN orders /\ orders[orderId].buyer_id = userId

\* The order lookup and the status checks: where they leave the request.
ConfirmStarted(userId, orderId) ==
    IF ~OrderOfBuyer(orderId, userId) THEN ConfirmDone(FALSE, "Order not found")
    ELSE IF orders[orderId].status = "delivered"
    THEN ConfirmDone(FALSE, "Order already marked as delivered")
    ELSE IF orders[orderId].status # "in_transit"
    THEN ConfirmDone(FALSE, "Order must be in transit before confirming delivery")
    ELSE [ConfirmIdle EXCEPT
            !.pc = "update", !.userId = userId, !.orderId = orderId,
            !.order = orders[orderId]]

ConfirmStart(c, userId, orderId) ==
    /\ ~ConfirmBusy(c)
    /\ Len(history) < MaxHistory
    /\ confirmReq' = [confirmReq EXCEPT ![c] = ConfirmStarted(userId, orderId)]
    /\ UNCHANGED <<now, feeCalc, cartReq, cartContext, sent, createReq, gateway, dbVars, verifyReq, updateReq>>

\* The buyer's UPDATE, were it to leave the payout unscheduled.
DeliveredUpdateUnscheduled(row) ==
    [row EXCEPT
        !.status = "delivered",
        !.delivered_at = {now},
        !.updated_at = now]

\* UPDATE orders SET status = 'delivered', ... WHERE id = $1
DeliveredUpdate(row) ==
    [row EXCEPT
        !.status = "delivered",
        !.delivered_at = {now},
        !.payout_date = {now + PayoutDelayDays},
        !.payout_status = "scheduled",
        !.updated_at = now]

ConfirmUpdate(c) ==
    LET r == confirmReq[c]
    IN  /\ r.pc = "update"
        /\ ~RowLocked(r.orderId)
        /\ orders' = [orders EXCEPT ![r.orderId] = DeliveredUpdate(@)]
        /\ confirmReq' = [confirmReq EXCEPT ![c] = [r EXCEPT !.pc = "history"]]
        /\ UNCHANGED <<now, feeCalc, cartReq, cartContext, sent, createReq, gateway, quantity_available, cart, order_items, history,
                       decremented, verifyReq, updateReq>>

\* INSERT INTO order_status_history (...)
ConfirmHistory(c) ==
    LET r == confirmReq[c]
    IN  /\ r.pc = "history"
        /\ history' = Append(history,
                [order_id |-> r.orderId, old_status |-> r.order.status,
                 new_status |-> "delivered", changed_by |-> r.userId,
                 notes |-> "Buyer confirmed delivery"])
        /\ confirmReq' = [confirmReq EXCEPT ![c] = [r EXCEPT !.pc = "notify"]]
        /\ UNCHANGED <<now, feeCalc, cartReq, cartContext, sent, createReq, gateway, quantity_available, cart, orders, order_items,
                       decremented, verifyReq, updateReq>>

\* await emailService.sendOrderStatusUpdate(order, 'delivered') and the response.
ConfirmNotify(c) ==
    LET r == confirmReq[c]
    IN  /\ r.pc = "notify"
        /\ sent' = sent \cup {Notification(r.order, "delivered")}
        /\ confirmReq' = [confirmReq EXCEPT ![c] =
                ConfirmDone(TRUE, "Delivery confirmed successfully")]
        /\ UNCHANGED <<now, feeCalc, cartReq, cartContext, createReq, gateway, dbVars, verifyReq, updateReq>>

\* A statement or the notification throws: 500; what was written stays.
ConfirmFail(c) ==
    LET r == confirmReq[c]
    IN  /\ r.pc \in {"update", "history", "notify"}
        /\ confirmReq' = [confirmReq EXCEPT ![c] =
                ConfirmDone(FALSE, "Failed to confirm delivery")]
        /\ UNCHANGED <<now, feeCalc, cartReq, cartContext, sent, createReq, gateway, dbVars, verifyReq, updateReq>>

ConfirmRespond(c) ==
    /\ confirmReq[c].pc = "done"
    /\ confirmReq' = [confirmReq EXCEPT ![c] = ConfirmIdle]
    /\ UNCHANGED <<now, feeCalc, cartReq, cartContext, sent, createReq, gateway, dbVars, verifyReq, updateReq>>

(***************************************************************************)
(* addToCart (cart controller), as one step: the product and stock checks, *)
(* the one-shop rule, and the insert or the quantity update.  A rejected   *)
(* call changes nothing.                                                   *)
(***************************************************************************)
SellerOfProduct(productId) ==
    products[CHOOSE i \in DOMAIN products : products[i].id = productId].seller_id

AddToCart(userId, productId, quantity) ==
    LET existing == {c \in cart[userId] : c.product_id = productId}
        newQuantity == IF existing = {} THEN quantity
                       ELSE (CHOOSE c \in existing : TRUE).quantity + quantity
    IN  /\ quantity >= 1
        /\ \E i \in DOMAIN products :
                products[i].id = productId /\ products[i].deleted_at = "null"
        /\ quantity_available[productId] >= newQuantity
        /\ \A c \in cart[userId] :
                SellerOfProduct(c.product_id) = SellerOfProduct(productId)
        /\ cart' = [cart EXCEPT ![userId] =
                (@ \ existing) \cup
                    {[product_id |-> productId, quantity |-> newQuantity]}]
        /\ UNCHANGED <<now, feeCalc, cartReq, cartContext, sent, createReq, gateway, quantity_available, orders,
                       order_items, history, decremented,
                       verifyReq, updateReq, confirmReq>>


(***************************************************************************)
(* The cart controller under concurrent requests.  addToCart runs its      *)
(* queries one after the other on the pool, without a transaction, so      *)
(* other requests run between them.  updateCartItem, removeFromCart and    *)
(* clearCart change cart_items with one statement each.  The user's carts  *)
(* row exists; the rows of cart_items are told apart by their product.     *)
(***************************************************************************)
NoCartResponse == [success |-> FALSE, status |-> 0, code |-> "none"]

CartIdle ==
    [pc |-> "idle", userId |-> 0, productId |-> 0, quantity |-> 0,
     quantity_available |-> 0, newQuantity |-> 0, res |-> NoCartResponse]

CartDone(success, status, code) ==
    [CartIdle EXCEPT !.pc = "done",
        !.res = [success |-> success, status |-> status, code |-> code]]

\* SELECT id, quantity_available FROM products WHERE id = $1 AND deleted_at IS NULL
AvailableProduct(productId) ==
    \E i \in DOMAIN products :
        products[i].id = productId /\ products[i].deleted_at = "null"

\* The validation, the product lookup and the stock check: where they leave
\* the request.
AddStarted(userId, productId, quantity) ==
    IF productId = 0 \/ quantity < 1 THEN CartDone(FALSE, 400, "INVALID")
    ELSE IF ~AvailableProduct(productId) THEN CartDone(FALSE, 404, "NOT_FOUND")
    ELSE IF quantity_available[productId] < quantity
    THEN CartDone(FALSE, 400, "OUT_OF_STOCK")
    ELSE [CartIdle EXCEPT
            !.pc = "shop", !.userId = userId, !.productId = productId,
            !.quantity = quantity,
            !.quantity_available = quantity_available[productId]]

AddStart(r, userId, productId, quantity) ==
    /\ cartReq[r].pc = "idle"
    /\ cartReq' = [cartReq EXCEPT ![r] = AddStarted(userId, productId, quantity)]
    /\ UNCHANGED <<pipelineVars, feeCalc, cartContext>>

\* SHOP ISOLATION: existingItems.rows[0].seller_id against the new product's
\* seller_id; the query has no ORDER BY, so rows[0] is any row of the cart.
AddShopCheck(r) ==
    LET q == cartReq[r]
    IN  /\ q.pc = "shop"
        /\ \/ /\ cart[q.userId] = {}
              /\ cartReq' = [cartReq EXCEPT ![r] = [q EXCEPT !.pc = "item"]]
           \/ \E row \in cart[q.userId] :
                cartReq' = [cartReq EXCEPT ![r] =
                    IF SellerOfProduct(row.product_id) # SellerOfProduct(q.productId)
                    THEN CartDone(FALSE, 400, "MULTI_SHOP_CART_ERROR")
                    ELSE [q EXCEPT !.pc = "item"]]
        /\ UNCHANGED <<pipelineVars, feeCalc, cartContext>>

\* SELECT id, quantity FROM cart_items WHERE cart_id = $1 AND product_id = $2
AddItemRead(r) ==
    LET q == cartReq[r]
        existingItem == {c \in cart[q.userId] : c.product_id = q.productId}
    IN  /\ q.pc = "item"
        /\ \/ /\ existingItem = {}
              /\ cartReq' = [cartReq EXCEPT ![r] = [q EXCEPT !.pc = "insert"]]
           \/ \E row \in existingItem :
                cartReq' = [cartReq EXCEPT ![r] =
                    IF row.quantity + q.quantity > q.quantity_available
                    THEN CartDone(FALSE, 400, "OUT_OF_STOCK")
                    ELSE [q EXCEPT !.pc = "update",
                                   !.newQuantity = row.quantity + q.quantity]]
        /\ UNCHANGED <<pipelineVars, feeCalc, cartContext>>

\* UPDATE cart_items SET quantity = $1 WHERE id = $2
AddUpdate(r) ==
    LET q == cartReq[r]
    IN  /\ q.pc = "update"
        /\ cart' = [cart EXCEPT ![q.userId] =
                {IF c.product_id = q.productId
                 THEN [c EXCEPT !.quantity = q.newQuantity] ELSE c : c \in @}]
        /\ cartReq' = [cartReq EXCEPT ![r] = CartDone(TRUE, 200, "ADDED")]
        /\ UNCHANGED <<now, sent, createReq, gateway, quantity_available, orders,
                       order_items, history, decremented, verifyReq, updateReq,
                       confirmReq, feeCalc, cartContext>>

\* INSERT INTO cart_items (cart_id, product_id, quantity) VALUES ($1, $2, $3)
AddInsert(r) ==
    LET q == cartReq[r]
    IN  /\ q.pc = "insert"
        /\ cart' = [cart EXCEPT ![q.userId] =
                @ \cup {[product_id |-> q.productId, quantity |-> q.quantity]}]
        /\ cartReq' = [cartReq EXCEPT ![r] = CartDone(TRUE, 200, "ADDED")]
        /\ UNCHANGED <<now, sent, createReq, gateway, quantity_available, orders,
                       order_items, history, decremented, verifyReq, updateReq,
                       confirmReq, feeCalc, cartContext>>

\* A query throws: 500.
AddFail(r) ==
    /\ cartReq[r].pc \in {"shop", "item", "update", "insert"}
    /\ cartReq' = [cartReq EXCEPT ![r] = CartDone(FALSE, 500, "FAILED")]
    /\ UNCHANGED <<pipelineVars, feeCalc, cartContext>>

AddRespond(r) ==
    /\ cartReq[r].pc = "done"
    /\ cartReq' = [cartReq EXCEPT ![r] = CartIdle]
    /\ UNCHANGED <<pipelineVars, feeCalc, cartContext>>

AddStep(r) ==
    \/ AddShopCheck(r)
    \/ AddItemRead(r)
    \/ AddUpdate(r)
    \/ AddInsert(r)
    \/ AddFail(r)
    \/ AddRespond(r)

\* updateCartItem, where it succeeds:
\* UPDATE cart_items SET quantity = $1 WHERE cart_id = $2 AND product_id = $3
UpdateCartItem(userId, productId, quantity) ==
    /\ quantity >= 1
    /\ AvailableProduct(productId)
    /\ quantity <= quantity_available[productId]
    /\ \E c \in cart[userId] : c.product_id = productId
    /\ cart' = [cart EXCEPT ![userId] =
            {IF c.product_id = productId
             THEN [c EXCEPT !.quantity = quantity] ELSE c : c \in @}]
    /\ UNCHANGED <<now, sent, createReq, gateway, quantity_available, orders,
                   order_items, history, decremented, verifyReq, updateReq,
                   confirmReq, feeCalc, cartReq, cartContext>>

\* removeFromCart, where it succeeds:
\* DELETE FROM cart_items WHERE cart_id = $1 AND product_id = $2
RemoveFromCart(userId, productId) ==
    /\ \E c \in cart[userId] : c.product_id = productId
    /\ cart' = [cart EXCEPT ![userId] = {c \in @ : c.product_id # productId}]
    /\ UNCHANGED <<now, sent, createReq, gateway, quantity_available, orders,
                   order_items, history, decremented, verifyReq, updateReq,
                   confirmReq, feeCalc, cartReq, cartContext>>

\* clearCart: DELETE FROM cart_items WHERE cart_id = $1
ClearCart(userId) ==
    /\ cart' = [cart EXCEPT ![userId] = {}]
    /\ UNCHANGED <<now, sent, createReq, gateway, quantity_available, orders,
                   order_items, history, decremented, verifyReq, updateReq,
                   confirmReq, feeCalc, cartReq, cartContext>>

(***************************************************************************)
(* The storefront's CartProvider (CartContext.jsx) in one browser tab: the *)
(* token and the guest cart in localStorage, the component's state and     *)
(* refs, and the transfers of the guest cart that are under way.  A        *)
(* transfer is started by initializeCart at mount or by                    *)
(* checkAuthAndTransferCart, at mount and then every second; sent counts   *)
(* the cartService.addToCart calls made for each product since the login.  *)
(* An item added without productData has no seller_id.  The effects run    *)
(* with the values of the first render, where currentShop is null.         *)
(***************************************************************************)
TransferPaths == {"initializeCart", "checkAuthAndTransferCart"}

NoTransfer == [pc |-> "idle", items |-> <<>>, i |-> 0]

\* useState and useRef at the first render, for a guest with an empty cart.
GuestContext ==
    [token |-> FALSE,
     guestCart |-> <<>>,
     isGuest |-> TRUE,
     hasTransferredCart |-> FALSE,
     transfer |-> [path \in TransferPaths |-> NoTransfer],
     sent |-> [p \in ProductIds |-> 0]]

ContextUnchanged == UNCHANGED <<pipelineVars, feeCalc, cartReq>>

HasShop(item) == "seller_id" \in DOMAIN item

\* [...new Set(guestCart.map(item => item.seller_id).filter(Boolean))]
ShopIdsOf(guestCart) ==
    {guestCart[i].seller_id : i \in {j \in DOMAIN guestCart : HasShop(guestCart[j])}}

\* shopIds[0]: the shop of the first item that has one.
FirstShopId(guestCart) ==
    LET first == CHOOSE i \in DOMAIN guestCart :
                    /\ HasShop(guestCart[i])
                    /\ \A j \in 1..(i - 1) : ~HasShop(guestCart[j])
    IN  guestCart[first].seller_id

ItemsOfShop(guestCart, shopId) ==
    SelectSeq(guestCart, LAMBDA item : HasShop(item) /\ item.seller_id = shopId)

\* itemsToTransfer, with currentShopId = 0 for no current shop.
ItemsToTransfer(guestCart, currentShopId) ==
    IF Cardinality(ShopIdsOf(guestCart)) > 1
    THEN IF currentShopId # 0 /\ currentShopId \in ShopIdsOf(guestCart)
         THEN ItemsOfShop(guestCart, currentShopId)
         ELSE ItemsOfShop(guestCart, FirstShopId(guestCart))
    ELSE guestCart

\* transferGuestCartToUser up to its first await: the items are chosen and
\* the first cartService.addToCart call is made.
TransferStarted(ctx, path) ==
    IF ctx.guestCart = <<>> THEN ctx
    ELSE LET items == ItemsToTransfer(ctx.guestCart, 0)
         IN  [ctx EXCEPT
                !.transfer[path] = [pc |-> "sending", items |-> items, i |-> 1],
                !.sent[items[1].product_id] = @ + 1]

\* initializeCart up to its first await.
InitializeCartStarted(ctx) ==
    IF ~ctx.token THEN [ctx EXCEPT !.isGuest = TRUE]
    ELSE TransferStarted([ctx EXCEPT !.isGuest = FALSE], "initializeCart")

\* checkAuthAndTransferCart up to its first await.
CheckAuthStarted(ctx) ==
    IF ctx.token /\ ctx.guestCart # <<>> /\ ~ctx.hasTransferredCart
    THEN TransferStarted(
            [ctx EXCEPT !.hasTransferredCart = TRUE, !.isGuest = FALSE],
            "checkAuthAndTransferCart")
    ELSE IF ctx.token /\ ctx.guestCart = <<>>
    THEN [ctx EXCEPT !.isGuest = FALSE, !.hasTransferredCart = FALSE]
    ELSE IF ~ctx.token
    THEN [ctx EXCEPT !.isGuest = TRUE, !.hasTransferredCart = FALSE]
    ELSE ctx

\* The effect on [cartItems, isGuest]: at the first render it saves the
\* empty cartItems as the guest cart; after the render that follows, a
\* guest's cartItems are the guest cart initializeCart loaded.
GuestCartSaved(ctx, loaded) ==
    [ctx EXCEPT !.guestCart = IF ctx.isGuest THEN loaded ELSE <<>>]

\* The page is loaded or reloaded: the first render and its effects, in the
\* order of the component.  What the page before had under way is gone.
Mount ==
    LET fresh == [cartContext EXCEPT
                    !.isGuest = TRUE,
                    !.hasTransferredCart = FALSE,
                    !.transfer = [path \in TransferPaths |-> NoTransfer]]
    IN  /\ cartContext' =
                GuestCartSaved(CheckAuthStarted(InitializeCartStarted(fresh)),
                               fresh.guestCart)
        /\ ContextUnchanged

\* setInterval(checkAuthAndTransferCart, 1000); one transfer of the path at a time.
Tick ==
    /\ cartContext.transfer["checkAuthAndTransferCart"].pc = "idle"
    /\ cartContext' = CheckAuthStarted(cartContext)
    /\ ContextUnchanged

\* The awaited cartService.addToCart call returns: the next item is sent,
\* or the guest cart is removed from localStorage and the cart is fetched.
TransferReturn(path) ==
    LET t == cartContext.transfer[path]
    IN  /\ t.pc = "sending"
        /\ cartContext' =
                IF t.i < Len(t.items)
                THEN [cartContext EXCEPT
                        !.transfer[path].i = t.i + 1,
                        !.sent[t.items[t.i + 1].product_id] = @ + 1]
                ELSE [cartContext EXCEPT
                        !.transfer[path] = NoTransfer,
                        !.guestCart = <<>>]
        /\ ContextUnchanged

\* The awaited call throws: the transfer ends and the guest cart stays.
TransferThrow(path) ==
    /\ cartContext.transfer[path].pc = "sending"
    /\ cartContext' = [cartContext EXCEPT !.transfer[path] = NoTransfer]
    /\ ContextUnchanged

\* The guest cart after addToCart(productId, 1, productData) has added its
\* line to it; productData brings the seller_id.
GuestCartWith(guestCart, productId, withData) ==
    IF \E i \in DOMAIN guestCart : guestCart[i].product_id = productId
    THEN [i \in DOMAIN guestCart |->
            IF guestCart[i].product_id = productId
            THEN [guestCart[i] EXCEPT !.quantity = @ + 1] ELSE guestCart[i]]
    ELSE Append(guestCart,
            IF withData
            THEN [product_id |-> productId, quantity |-> 1,
                  seller_id |-> SellerOfProduct(productId)]
            ELSE [product_id |-> productId, quantity |-> 1])

\* addToCart of a guest.  Where the cart's first item and the new product
\* are known to be of different shops the user is asked, and the cart is
\* cleared first (confirmed) or the cart is not modified.
GuestAddToCart(productId, withData, confirmed) ==
    LET guestCart == cartContext.guestCart
        otherShop == /\ guestCart # <<>>
                     /\ HasShop(guestCart[1])
                     /\ withData
                     /\ guestCart[1].seller_id # SellerOfProduct(productId)
    IN  /\ cartContext.isGuest
        /\ otherShop => confirmed
        /\ \A i \in DOMAIN guestCart :
                guestCart[i].product_id = productId =>
                    guestCart[i].quantity < MaxGuestQuantity
        /\ cartContext' = [cartContext EXCEPT !.guestCart =
                GuestCartWith(IF otherShop THEN <<>> ELSE guestCart,
                              productId, withData)]
        /\ ContextUnchanged

\* Another component stores the token of a login.
Login ==
    /\ ~cartContext.token
    /\ \A path \in TransferPaths : cartContext.transfer[path].pc = "idle"
    /\ cartContext' = [cartContext EXCEPT
            !.token = TRUE, !.sent = [p \in ProductIds |-> 0]]
    /\ ContextUnchanged

\* The token is removed.
Logout ==
    /\ cartContext.token
    /\ \A path \in TransferPaths : cartContext.transfer[path].pc = "idle"
    /\ cartContext' = [cartContext EXCEPT !.token = FALSE]
    /\ ContextUnchanged

(***************************************************************************)
(* The platform fee in the arithmetic of the code.  A JavaScript number is *)
(* an IEEE 754 binary64 value and `*` and `+` round their exact result to  *)
(* the nearest such value, ties to the even mantissa.  The literal 0.05 is *)
(* the binary64 value 1/20 + 1/(5 * 2^56).  A fee is held as               *)
(*     n/20 + (e/5) * 2^(k - 52)                                           *)
(* for a whole number n of naira, the binade k of n/20                     *)
(* (2^k <= n/20 < 2^(k+1)) and a whole number e: the distance of the       *)
(* binary64 value from n/20, in fifths of a unit in the last place.        *)
(***************************************************************************)
RECURSIVE Pow2(_)
Pow2(n) == IF n = 0 THEN 1 ELSE 2 * Pow2(n - 1)

RECURSIVE BinadeFrom(_, _)
BinadeFrom(n, k) == IF n < 40 * Pow2(k) THEN k ELSE BinadeFrom(n, k + 1)

\* The binade of n/20, for n >= 20.
Binade(n) == BinadeFrom(n, 0)

\* n * 2^(50 - k) modulo 5: the place of n/20 between two neighbouring
\* binary64 values of binade k, in fifths of their distance.
Residue(n, k) == (n * Pow2((50 - k) % 4)) % 5

\* x * 0.05 for a whole number x >= 20.  The exact product lies
\* (r + x / 2^(4+k)) / 5 of the way from one binary64 value to the next.
TimesFeeRate(x) ==
    LET k == Binade(x)
        r == Residue(x, k)
        den == Pow2(4 + k)
        twice == 2 * (r * den + x)
        up == twice > 5 * den \/ (twice = 5 * den /\ r % 2 = 1)
    IN  [n |-> x, e |-> IF up THEN 5 - r ELSE 0 - r, k |-> k]

\* The orderTotal of a group that passed the minimum-order check, in whole naira.
OrderTotals == MinimumOrderValue .. MinimumOrderValue + MaxOverMinimum

\* The order totals of a checkout of one or two shops.
CheckoutTotals ==
    {<<a>> : a \in OrderTotals} \cup {<<a, b>> : a \in OrderTotals, b \in OrderTotals}

FeeIdle ==
    [pc |-> "idle", orderTotals |-> <<>>, totalAmount |-> 0, platformFee |-> [n |-> 0, e |-> 0, k |-> 0],
     platform_fee |-> <<>>]

\* createOrder: totalAmount += orderTotal for each group, then
\* platformFee = totalAmount * 0.05, kept in the session's metadata.
FeeCreateOrder(orderTotals) ==
    /\ feeCalc.pc = "idle"
    /\ feeCalc' = [FeeIdle EXCEPT
            !.pc = "paid",
            !.orderTotals = orderTotals,
            !.totalAmount = SumSeq(orderTotals),
            !.platformFee = TimesFeeRate(SumSeq(orderTotals))]
    /\ UNCHANGED <<pipelineVars, cartReq, cartContext>>

\* verifyPayment, for the next order of the metadata:
\* platformFee = orderTotal * 0.05, stored in the order's platform_fee.
FeeVerifyOrder ==
    LET g == Len(feeCalc.platform_fee) + 1
    IN  /\ feeCalc.pc = "paid"
        /\ feeCalc' = [feeCalc EXCEPT
                !.platform_fee = Append(@, TimesFeeRate(feeCalc.orderTotals[g])),
                !.pc = IF g = Len(feeCalc.orderTotals) THEN "settled" ELSE "paid"]
        /\ UNCHANGED <<pipelineVars, cartReq, cartContext>>

\* The next checkout.
FeeForget ==
    /\ feeCalc.pc = "settled"
    /\ feeCalc' = FeeIdle
    /\ UNCHANGED <<pipelineVars, cartReq, cartContext>>

(***************************************************************************)
(* Initial states and specifications.                                      *)
(***************************************************************************)
InitialCart == [userId \in Buyers |-> {[product_id |-> 2, quantity |-> 1]}]

\* products.quantity_available at the start: product 1 has one unit more, so
\* that a line of two units can be ordered.
InitialStock == [p \in ProductIds |-> IF p = 1 THEN MaxStock + 1 ELSE MaxStock]

Init ==
    /\ now = 0
    /\ quantity_available = InitialStock
    /\ cart = InitialCart
    /\ gateway = {}
    /\ orders = <<>>
    /\ order_items = <<>>
    /\ history = <<>>
    /\ sent = {}
    /\ decremented = [reference \in Refs |-> [p \in ProductIds |-> 0]]
    /\ createReq = CreateIdle
    /\ verifyReq = [v \in VerifyReqs |-> VerifyIdle]
    /\ updateReq = [u \in UpdateReqs |-> UpdateIdle]
    /\ confirmReq = [c \in ConfirmReqs |-> ConfirmIdle]
    /\ feeCalc = FeeIdle
    /\ cartReq = [r \in CartReqs |-> CartIdle]
    /\ cartContext = GuestContext

\* No handler is between two of its steps.
Quiet ==
    /\ ~CreateBusy
    /\ \A v \in VerifyReqs : ~VerifyBusy(v)
    /\ \A u \in UpdateReqs : ~UpdateBusy(u)
    /\ \A c \in ConfirmReqs : ~ConfirmBusy(c)

VerifyStep(v) ==
    \/ VerifyGateway(v)
    \/ VerifyBegin(v)
    \/ VerifyInsertOrder(v)
    \/ VerifyInsertItem(v)
    \/ VerifyUpdateStock(v)
    \/ VerifyClearCart(v)
    \/ VerifyCommit(v)
    \/ VerifyFail(v)
    \/ VerifyRespond(v)

UpdateStep(u) ==
    \/ UpdateRead(u)
    \/ UpdateWrite(u)
    \/ UpdateHistory(u)
    \/ UpdateNotify(u)
    \/ UpdateCommit(u)
    \/ UpdateFail(u)
    \/ UpdateRespond(u)

ConfirmStep(c) ==
    \/ ConfirmUpdate(c)
    \/ ConfirmHistory(c)
    \/ ConfirmNotify(c)
    \/ ConfirmFail(c)
    \/ ConfirmRespond(c)

\* The whole pipeline, one request at a time, among checkouts that go through.
Next ==
    \/ \E userId \in Buyers, body \in CheckoutBodies :
            /\ Quiet
            /\ CreateStarted(userId, body, FALSE).res.success
            /\ CreateOrder(userId, body, FALSE)
    \/ CreateRespond
    \/ \E reference \in Refs, outcome \in {"success", "failed"} :
            GatewayPay(reference, outcome)
    \/ \E reference \in Refs : Quiet /\ VerifyStart(1, reference)
    \/ VerifyStep(1)
    \/ \E userId \in Users, orderId \in 1..Len(orders), status \in RequestedStatuses :
            Quiet /\ UpdateStart(1, userId, orderId, status)
    \/ UpdateStep(1)
    \/ \E userId \in Users, orderId \in 1..Len(orders) :
            Quiet /\ ConfirmStart(1, userId, orderId)
    \/ ConfirmStep(1)

Spec == Init /\ [][Next]_vars

\* Settlement under concurrent requests, among checkouts that go through;
\* the response of a checkout leaves before anything else moves.
NextSettle ==
    \/ \E userId \in Buyers, body \in CheckoutBodies :
            /\ CreateStarted(userId, body, FALSE).res.success
            /\ CreateOrder(userId, body, FALSE)
    \/ CreateRespond
    \/ /\ ~CreateBusy
       /\ \/ \E reference \in Refs, outcome \in {"success", "failed"} :
                GatewayPay(reference, outcome)
          \/ \E v \in VerifyReqs, reference \in Refs : VerifyStart(v, reference)
          \/ \E v \in VerifyReqs : VerifyStep(v)

SpecSettle == Init /\ [][NextSettle]_vars

\* Checkout and settlement on every kind of request body, one request at a
\* time, with a gateway that may or may not accept a reference it holds.
NextCheckout ==
    \/ \E userId \in Buyers, body \in CheckoutInputs, accepts \in BOOLEAN :
            /\ Quiet
            /\ CreateStarted(userId, body, accepts).res.success =>
                    Cardinality(gateway) < MaxIntents
            /\ CreateOrder(userId, body, accepts)
    \/ CreateRespond
    \/ \E reference \in Refs, outcome \in {"success", "failed"} :
            GatewayPay(reference, outcome)
    \/ \E reference \in Refs : Quiet /\ VerifyStart(1, reference)
    \/ VerifyStep(1)
    \/ \E userId \in Buyers : Quiet /\ AddToCart(userId, 2, 1)

SpecCheckout == Init /\ [][NextCheckout]_vars

\* A verifyPayment call is over: no worker is between BEGIN and the end of
\* its transaction.
Settled == \A v \in VerifyReqs : verifyReq[v].pc \in {"idle", "done"}

\* Settlement with retries: a call starts when the calls before it are over.
NextRetry ==
    \/ \E userId \in Buyers, body \in CheckoutBodies :
            /\ CreateStarted(userId, body, FALSE).res.success
            /\ Settled
            /\ CreateOrder(userId, body, FALSE)
    \/ CreateRespond
    \/ /\ ~CreateBusy
       /\ \/ \E reference \in Refs, outcome \in {"success", "failed"} :
                Settled /\ GatewayPay(reference, outcome)
          \/ \E v \in VerifyReqs, reference \in Refs :
                Settled /\ VerifyStart(v, reference)
          \/ \E v \in VerifyReqs : VerifyStep(v)

\* The handler runs on; the client calls again for as long as it may; the
\* failures of the database stop at some point.
RetryFairness ==
    /\ WF_vars(CreateRespond)
    /\ \A v \in VerifyReqs : WF_vars(VerifyStep(v))
    /\ \A reference \in Refs :
            SF_vars(\E v \in VerifyReqs : Settled /\ ~CreateBusy /\ VerifyStart(v, reference))
    /\ <>[][~ \E v \in VerifyReqs : VerifyFail(v)]_vars

SpecRetry == Init /\ [][NextRetry]_vars /\ RetryFairness

\* The buffer a settlement of the intent builds, statement by statement.
RECURSIVE SettledItems(_, _)
SettledItems(orderDetails, g) ==
    IF g > Len(orderDetails) THEN <<>>
    ELSE [i \in DOMAIN orderDetails[g].items |->
            [order_ix |-> g,
             product_id |-> orderDetails[g].items[i].productId,
             product_price |-> orderDetails[g].items[i].productPrice,
             quantity |-> orderDetails[g].items[i].quantity,
             subtotal |-> orderDetails[g].items[i].subtotal]]
         \o SettledItems(orderDetails, g + 1)

SettledTx(reference, metadata) ==
    LET items == SettledItems(metadata.orders, 1)
    IN  [orders |-> [g \in DOMAIN metadata.orders |->
                        NewOrder(reference, metadata, metadata.orders[g])],
         items |-> items,
         stock |-> [k \in DOMAIN items |->
                        [product_id |-> items[k].product_id,
                         quantity |-> items[k].quantity]],
         cart |-> TRUE]

\* The state after buyer 1 has checked out from both shops, paid and settled.
InitStatus ==
    /\ now = 0
    /\ LET body == CHOOSE b \in CheckoutBodies : Len(b.orders) = 2
           reference == Reference(1)
           metadata == Metadata(1, body)
           tx == SettledTx(reference, metadata)
       IN  /\ gateway = {[Session(1, body) EXCEPT !.status = "success"]}
           /\ orders = CommittedOrders(tx, 0)
           /\ order_items = CommittedItems(tx, 0)
           /\ quantity_available = CommittedStock(tx, InitialStock)
           /\ decremented = [ref \in Refs |-> [p \in ProductIds |->
                    IF ref = reference THEN Subtracted(tx.stock, p) ELSE 0]]
           /\ cart = CommittedCart(tx, 1, InitialCart)
    /\ history = <<>>
    /\ sent = {}
    /\ createReq = CreateIdle
    /\ verifyReq = [v \in VerifyReqs |-> VerifyIdle]
    /\ updateReq = [u \in UpdateReqs |-> UpdateIdle]
    /\ confirmReq = [c \in ConfirmReqs |-> ConfirmIdle]
    /\ feeCalc = FeeIdle
    /\ cartReq = [r \in CartReqs |-> CartIdle]
    /\ cartContext = GuestContext

\* The status machine under concurrent requests.
NextStatus ==
    \/ \E u \in UpdateReqs, userId \in Users, orderId \in 1..Len(orders),
          status \in RequestedStatuses :
            UpdateStart(u, userId, orderId, status)
    \/ \E u \in UpdateReqs : UpdateStep(u)
    \/ \E c \in ConfirmReqs, userId \in Users, orderId \in 1..Len(orders) :
            ConfirmStart(c, userId, orderId)
    \/ \E c \in ConfirmReqs : ConfirmStep(c)

SpecStatus == InitStatus /\ [][NextStatus]_vars

\* The platform fee of a checkout, at createOrder and at verifyPayment.
NextFee ==
    \/ \E orderTotals \in CheckoutTotals : FeeCreateOrder(orderTotals)
    \/ FeeVerifyOrder
    \/ FeeForget

SpecFee == Init /\ [][NextFee]_vars

\* The cart controller, its requests running at the same time.
NextCart ==
    \/ \E r \in CartReqs, userId \in Buyers, productId \in ProductIds \cup {0},
          quantity \in 0..2 :
            AddStart(r, userId, productId, quantity)
    \/ \E r \in CartReqs : AddStep(r)
    \/ \E userId \in Buyers, productId \in ProductIds, quantity \in 1..2 :
            UpdateCartItem(userId, productId, quantity)
    \/ \E userId \in Buyers, productId \in ProductIds : RemoveFromCart(userId, productId)
    \/ \E userId \in Buyers : ClearCart(userId)

SpecCart == Init /\ [][NextCart]_vars

\* The storefront's cart in one tab.
NextContext ==
    \/ \E productId \in ProductIds \ {4}, withData \in BOOLEAN, confirmed \in BOOLEAN :
            GuestAddToCart(productId, withData, confirmed)
    \/ Login
    \/ Logout
    \/ Mount
    \/ Tick
    \/ \E path \in TransferPaths : TransferReturn(path)
    \/ \E path \in TransferPaths : TransferThrow(path)

SpecContext == Init /\ [][NextContext]_vars

(***************************************************************************)
(* Properties.                                                             *)
(***************************************************************************)
\* Rows of the orders table that carry a payment reference, read off the table.
OrderIdsOf(reference) ==
    {o \in DOMAIN orders : orders[o].paystack_reference = reference}

PairsOf(reference) ==
    {[orderId |-> o, orderNumber |-> orders[o].order_number] : o \in OrderIdsOf(reference)}

\* A verifyPayment request takes its first step, for this reference.
VerifyStarts(v, reference) ==
    /\ verifyReq[v].pc = "idle"
    /\ verifyReq'[v].pc # "idle"
    /\ verifyReq'[v].reference = reference

\* A verifyPayment request commits its transaction.
VerifyCommits(v) ==
    /\ verifyReq[v].pc = "commit"
    /\ verifyReq'[v].pc = "done"
    /\ verifyReq'[v].res.success

C1_Step ==
    \A v \in VerifyReqs, reference \in Refs :
        /\ (VerifyStarts(v, reference) /\ OrderIdsOf(reference) # {}) =>
                /\ verifyReq'[v].pc = "done"
                /\ verifyReq'[v].res.success
                /\ verifyReq'[v].res.orders = PairsOf(reference)
                /\ ~verifyReq'[v].called
                /\ UNCHANGED <<orders, order_items, quantity_available>>
        /\ (VerifyCommits(v) /\ verifyReq[v].reference = reference) =>
                verifyReq'[v].res.orders = {[orderId |-> o,
                                             orderNumber |-> orders'[o].order_number] :
                    o \in {x \in DOMAIN orders' : orders'[x].paystack_reference = reference}}
        /\ OrderIdsOf(reference) # {} =>
                {x \in DOMAIN orders' : orders'[x].paystack_reference = reference}
                    = OrderIdsOf(reference)

\* C1: with requests handled one after the other, once a verifyPayment call has
\* committed the orders of a reference, every later call for it answers success
\* with exactly those {orderId, orderNumber} pairs straight from the lookup,
\* without calling the gateway and without writing orders, items or stock.
C1_SequentialIdempotency == [][C1_Step]_vars

C1_Witness ==
    \E v \in VerifyReqs :
        /\ verifyReq[v].pc = "done"
        /\ verifyReq[v].res.message = "Payment already verified"
        /\ verifyReq[v].res.orders # {}

\* The checkout intent the gateway holds for a reference.
HasIntent(reference) == \E t \in gateway : t.reference = reference
IntentOf(reference) == (CHOOSE t \in gateway : t.reference = reference).metadata

\* C2: under concurrent verifyPayment requests the table holds, for every
\* reference, either no order or exactly one order per shop group of its intent,
\* and every finished request that reports success for it reports exactly the
\* orders the table holds for it.
C2_ConcurrentIdempotency ==
    \A reference \in Refs :
        /\ ~HasIntent(reference) => OrderIdsOf(reference) = {}
        /\ HasIntent(reference) =>
                \/ OrderIdsOf(reference) = {}
                \/ /\ Cardinality(OrderIdsOf(reference)) = Len(IntentOf(reference).orders)
                   /\ \A g \in DOMAIN IntentOf(reference).orders :
                        \E o \in OrderIdsOf(reference) :
                            orders[o].seller_id = IntentOf(reference).orders[g].sellerId
        /\ \A v \in VerifyReqs :
                (/\ verifyReq[v].pc = "done"
                 /\ verifyReq[v].reference = reference
                 /\ verifyReq[v].res.success) =>
                    verifyReq[v].res.orders = PairsOf(reference)

\* Units of a product in a checkout intent.
RECURSIVE QuantityIn(_, _)
QuantityIn(items, productId) ==
    IF items = <<>> THEN 0
    ELSE (IF Head(items).productId = productId THEN Head(items).quantity ELSE 0)
         + QuantityIn(Tail(items), productId)

RECURSIVE IntentQuantity(_, _)
IntentQuantity(orderDetails, productId) ==
    IF orderDetails = <<>> THEN 0
    ELSE QuantityIn(Head(orderDetails).items, productId)
         + IntentQuantity(Tail(orderDetails), productId)

\* C3: for every product and reference, the units subtracted from the product's
\* quantity_available on behalf of the reference are 0 or exactly the quantity
\* of the product in the reference's checkout intent.
C3_DecrementOncePerReference ==
    \A reference \in Refs, p \in ProductIds :
        \/ decremented[reference][p] = 0
        \/ /\ HasIntent(reference)
           /\ decremented[reference][p] = IntentQuantity(IntentOf(reference).orders, p)

\* C4: no product's quantity_available is ever negative.
C4_NoOversell == \A p \in ProductIds : quantity_available[p] >= 0

\* A line of the intent asks for more than the product has.
Insufficient(metadata) ==
    \E g \in DOMAIN metadata.orders : \E i \in DOMAIN metadata.orders[g].items :
        metadata.orders[g].items[i].quantity
            > quantity_available[metadata.orders[g].items[i].productId]

\* A verifyPayment request ends the transaction it had begun.
VerifyEndsTx(v) ==
    /\ verifyReq[v].pc \in {"order", "item", "stock", "cart", "commit"}
    /\ verifyReq'[v].pc = "done"

\* C5: a settlement that ends while a line of its intent exceeds the product's
\* quantity_available commits no order and no item for any shop group and
\* leaves every quantity_available as it was.
C5_InsufficientStockFailsWhole ==
    [][\A v \in VerifyReqs :
        (VerifyEndsTx(v) /\ Insufficient(verifyReq[v].metadata)) =>
            /\ ~verifyReq'[v].res.success
            /\ UNCHANGED <<orders, order_items, quantity_available>>]_vars

\* The order_items rows of an order, in insertion order, as intent lines.
ItemsOfOrder(o) ==
    LET rows == SelectSeq(order_items, LAMBDA row : row.order_id = o)
    IN  [k \in DOMAIN rows |->
            [productId |-> rows[k].product_id,
             productPrice |-> rows[k].product_price,
             quantity |-> rows[k].quantity,
             subtotal |-> rows[k].subtotal]]

RECURSIVE DecrementedFor(_, _)
DecrementedFor(references, p) ==
    IF references = {} THEN 0
    ELSE LET reference == CHOOSE x \in references : TRUE
         IN  decremented[reference][p] + DecrementedFor(references \ {reference}, p)

C6_State ==
    /\ \A k \in DOMAIN order_items : order_items[k].order_id \in DOMAIN orders
    /\ \A p \in ProductIds :
            quantity_available[p] = InitialStock[p] - DecrementedFor(Refs, p)
    /\ \A reference \in Refs :
        IF ~HasIntent(reference)
        THEN /\ OrderIdsOf(reference) = {}
             /\ \A p \in ProductIds : decremented[reference][p] = 0
        ELSE LET groups == IntentOf(reference).orders
                 ordersOfGroup(g) ==
                    {o \in OrderIdsOf(reference) : orders[o].seller_id = groups[g].sellerId}
                 n == Cardinality(ordersOfGroup(1))
             IN  /\ \A g \in DOMAIN groups : Cardinality(ordersOfGroup(g)) = n
                 /\ \A o \in OrderIdsOf(reference) :
                        \E g \in DOMAIN groups :
                            /\ o \in ordersOfGroup(g)
                            /\ ItemsOfOrder(o) = groups[g].items
                 /\ \A p \in ProductIds :
                        decremented[reference][p] = n * IntentQuantity(groups, p)

C6_FailStep ==
    \A v \in VerifyReqs :
        (VerifyEndsTx(v) /\ ~verifyReq'[v].res.success) =>
            UNCHANGED <<orders, order_items, quantity_available, decremented, cart>>

\* C6: in every committed state the orders of a reference come in whole sets:
\* every shop group of its intent has the same number of orders, each with
\* exactly the group's line items, and the stock taken for the reference is that
\* number of times the intent's quantities (nothing for a reference without
\* orders); a settlement transaction that fails at any statement leaves orders,
\* items, stock and the buyer's cart as they were.
C6_AllOrNothing == []C6_State /\ [][C6_FailStep]_vars

C6_Witness ==
    \E v \in VerifyReqs :
        /\ verifyReq[v].pc = "done"
        /\ ~verifyReq[v].res.success
        /\ Len(verifyReq[v].metadata.orders) = 2
        /\ OrderIdsOf(verifyReq[v].reference) = {}
        /\ cart[verifyReq[v].metadata.userId] # {}

\* The edges of the transition table of the status workflow.
LegalEdges ==
    {<<"pending", "processing">>, <<"processing", "ready_for_pickup">>,
     <<"ready_for_pickup", "in_transit">>, <<"in_transit", "delivered">>}

\* An updateOrderStatus request of the order's seller reads the order.
UpdateReads(u) ==
    /\ updateReq[u].pc = "read"
    /\ updateReq'[u].pc # "read"
    /\ updateReq[u].orderId \in DOMAIN orders
    /\ orders[updateReq[u].orderId].seller_id = updateReq[u].sellerId

\* An updateOrderStatus request commits its transaction.
UpdateCommits(u) ==
    /\ updateReq[u].pc = "commit"
    /\ updateReq'[u].pc = "done"
    /\ updateReq'[u].res.success

C7_Step ==
    \A u \in UpdateReqs :
        LET r == updateReq[u]
        IN  /\ UpdateReads(u) =>
                    /\ updateReq'[u].pc = "update"
                            <=> <<orders[r.orderId].status, r.status>> \in LegalEdges
                    /\ updateReq'[u].pc # "update" =>
                            /\ updateReq'[u].pc = "done"
                            /\ ~updateReq'[u].res.success
            /\ UpdateCommits(u) =>
                    /\ <<orders[r.orderId].status, r.status>> \in LegalEdges
                    /\ orders'[r.orderId].status = r.status
                    /\ Len(history') = Len(history) + 1
                    /\ history'[Len(history')].old_status = orders[r.orderId].status
                    /\ history'[Len(history')].new_status = r.status
            /\ (r.pc # "done" /\ updateReq'[u].pc = "done" /\ ~updateReq'[u].res.success) =>
                    UNCHANGED <<orders, history>>

C8_StatusCompareAndSwap ==
    [][/\ \A u \in UpdateReqs :
            UpdateCommits(u) =>
                <<orders[updateReq[u].orderId].status, updateReq[u].status>> \in LegalEdges
       /\ \A c \in ConfirmReqs :
            (confirmReq[c].pc = "update" /\ confirmReq'[c].pc = "history") =>
                <<orders[confirmReq[c].orderId].status, "delivered">> \in LegalEdges]_vars

StatusRank(status) ==
    CASE status = "pending" -> 1
      [] status = "processing" -> 2
      [] status = "ready_for_pickup" -> 3
      [] status = "in_transit" -> 4
      [] status = "delivered" -> 5
      [] OTHER -> 0

\* C9: a stored status of delivered never changes again, and no stored status
\* ever moves backward along pending, processing, ready_for_pickup, in_transit,
\* delivered.
C9_DeliveredTerminal ==
    [][\A o \in DOMAIN orders :
        /\ orders[o].status = "delivered" => orders'[o].status = "delivered"
        /\ StatusRank(orders'[o].status) >= StatusRank(orders[o].status)]_vars

C11_ItemConservation ==
    \A o \in DOMAIN orders :
        LET items == ItemsOfOrder(o)
        IN  /\ \A k \in DOMAIN items :
                    items[k].subtotal = items[k].productPrice * items[k].quantity
            /\ SumSeq([k \in DOMAIN items |-> items[k].subtotal]) = orders[o].total_amount

\* An order of two lines and an order of one line of two units are in the table.
C11_Witness ==
    /\ \E o \in DOMAIN orders : Len(ItemsOfOrder(o)) = 2
    /\ \E o \in DOMAIN orders :
            \E k \in DOMAIN ItemsOfOrder(o) : ItemsOfOrder(o)[k].quantity = 2

\* The rows of the status history of an order, oldest first.
HistoryOf(o) == SelectSeq(history, LAMBDA row : row.order_id = o)

\* The status history records the committed transition of the order to status.
Recorded(o, status) ==
    \E k \in DOMAIN history :
        history[k].order_id = o /\ history[k].new_status = status

\* C12: a request of updateOrderStatus that has reached the notification of a
\* legal transition to ready_for_pickup, in_transit or delivered is not ended
\* by that step with a failure: whatever the notification does, the request is
\* not answered with an error there and its transition stays to be committed.
C12_NotificationNonFatal ==
    [][\A u \in UpdateReqs :
        (updateReq[u].pc = "notify" /\ updateReq'[u].pc # "notify") =>
            /\ updateReq'[u].pc = "commit"
            /\ updateReq'[u].status = updateReq[u].status
            /\ updateReq'[u].updatedOrder = updateReq[u].updatedOrder]_vars

\* C13: a notification is dispatched only once the transition it announces is
\* committed (the order has the new status and the history has its row), and
\* when no request is in flight every notification dispatched is of a
\* transition the history records.
C13_State ==
    Quiet => \A n \in sent : Recorded(n.order_id, n.status)

C13_Step ==
    \A n \in sent' \ sent :
        /\ orders[n.order_id].status = n.status
        /\ Recorded(n.order_id, n.status)

C13_NotificationAfterCommit == []C13_State /\ [][C13_Step]_vars

\* The history rows of the order lead, one transition after the other, from
\* pending to the status the order has.
HistoryMatchesStatus(o) ==
    LET h == HistoryOf(o)
    IN  IF h = <<>> THEN orders[o].status = "pending"
        ELSE /\ h[1].old_status = "pending"
             /\ \A k \in 1..(Len(h) - 1) : h[k + 1].old_status = h[k].new_status
             /\ h[Len(h)].new_status = orders[o].status

\* C14: whenever no request is in flight, that is after any outcome of
\* updateOrderStatus and of confirmDelivery, every change of an order's status
\* has exactly one history row and every history row is of a change applied:
\* the rows of the order lead from pending to its current status.
C14_StatusHistoryAtomic ==
    Quiet => \A o \in DOMAIN orders : HistoryMatchesStatus(o)

\* The user is the one whose shop the order was placed with.
OwnsAsSeller(userId, o) ==
    \E i \in DOMAIN sellers :
        sellers[i].user_id = userId /\ sellers[i].id = orders[o].seller_id

IsSeller(userId) == \E i \in DOMAIN sellers : sellers[i].user_id = userId

C16_RejectionListsLegalNext ==
    [][\A u \in UpdateReqs :
        LET r == updateReq[u]
            current == orders[r.orderId].status
        IN  (UpdateReads(u) /\ updateReq'[u].pc = "done") =>
                /\ ~updateReq'[u].res.success
                /\ updateReq'[u].res.message = "Cannot change status"
                /\ updateReq'[u].res.allowed =
                        {next \in validStatuses : <<current, next>> \in LegalEdges}
                /\ (current = "pending" /\ r.status = "in_transit") =>
                        updateReq'[u].res.allowed = {"processing"}
                /\ current \in {"delivered", "cancelled"} =>
                        updateReq'[u].res.allowed = {}]_vars

\* A request on a pending order has been refused, listing processing alone.
C16_Witness ==
    /\ \E u \in UpdateReqs :
            /\ updateReq[u].pc = "done"
            /\ updateReq[u].res.message = "Cannot change status"
            /\ updateReq[u].res.allowed = {"processing"}
    /\ \E o \in DOMAIN orders : orders[o].status = "pending"

\* C17: in every state an order has payout_status 'scheduled' iff its status is
\* delivered, has a payout_date iff its status is delivered, and has
\* delivered_at set iff its status is delivered.
C17_PayoutScheduling ==
    \A o \in DOMAIN orders :
        /\ orders[o].payout_status = "scheduled" <=> orders[o].status = "delivered"
        /\ orders[o].payout_date # {} <=> orders[o].status = "delivered"
        /\ orders[o].delivered_at # {} <=> orders[o].status = "delivered"

\* C18: confirmDelivery called by a user who is not the buyer of the order ends
\* at once with 'Order not found', whatever the status of the order, and leaves
\* the orders, the status history and the notifications unchanged.
C18_BuyerAuthorization ==
    [][\A c \in ConfirmReqs :
        (confirmReq[c].pc = "idle" /\ confirmReq'[c].pc # "idle") =>
            \A o \in DOMAIN orders :
                \A userId \in Users \ {orders[o].buyer_id} :
                    confirmReq'[c] = ConfirmStarted(userId, o) =>
                        /\ confirmReq'[c].pc = "done"
                        /\ ~confirmReq'[c].res.success
                        /\ confirmReq'[c].res.message = "Order not found"
                        /\ UNCHANGED <<orders, history, sent>>]_vars

\* A confirmation has been refused while an order is in transit and unconfirmed.
C18_Witness ==
    /\ \E c \in ConfirmReqs :
            /\ confirmReq[c].pc = "done"
            /\ confirmReq[c].res.message = "Order not found"
    /\ \E o \in DOMAIN orders :
            orders[o].status = "in_transit" /\ orders[o].payout_status # "scheduled"

\* The statements of confirmDelivery that follow its checks.
ConfirmWrites == {"update", "history", "notify"}

\* C19: confirmDelivery by the buyer of the order goes on to its writes iff the
\* stored status is in_transit, is refused with the already-delivered error on a
\* delivered order and with the in-transit error on any other status, and
\* whenever it ends in failure, by a refusal or later, the order is as it was read,
\* the history has no row of the delivery and no notification was sent.
C19_Step ==
    /\ \A c \in ConfirmReqs :
            (confirmReq[c].pc = "idle" /\ confirmReq'[c].pc # "idle") =>
                \A userId \in Users, o \in DOMAIN orders :
                    (orders[o].buyer_id = userId
                        /\ confirmReq'[c] = ConfirmStarted(userId, o)) =>
                        /\ confirmReq'[c].pc = "update" <=> orders[o].status = "in_transit"
                        /\ orders[o].status = "delivered" =>
                                confirmReq'[c].res.message =
                                    "Order already marked as delivered"
                        /\ orders[o].status \notin {"in_transit", "delivered"} =>
                                confirmReq'[c].res.message =
                                    "Order must be in transit before confirming delivery"
                        /\ confirmReq'[c].pc = "done" =>
                                /\ ~confirmReq'[c].res.success
                                /\ UNCHANGED <<orders, history, sent>>
    /\ \A c \in ConfirmReqs :
            LET r == confirmReq[c]
            IN  (/\ r.pc \in ConfirmWrites
                 /\ confirmReq'[c].pc = "done"
                 /\ ~confirmReq'[c].res.success) =>
                    /\ orders'[r.orderId] = r.order
                    /\ ~\E k \in DOMAIN history' :
                            /\ history'[k].order_id = r.orderId
                            /\ history'[k].new_status = "delivered"
                    /\ \A n \in sent' : ~(n.order_id = r.orderId /\ n.status = "delivered")

C19_ConfirmOnlyInTransit == [][C19_Step]_vars

\* The projection of a history row that the two entry points are to agree on.
Transition(row) ==
    [order_id |-> row.order_id, old_status |-> row.old_status,
     new_status |-> row.new_status]

\* C20: from the same in_transit order, the buyer's confirmation writes the row
\* the seller's transition to delivered would write, and the seller's committed
\* transition writes the row the buyer's confirmation would write (status
\* delivered, delivered_at and payout_date set, payout_status 'scheduled'); each
\* appends one history row in_transit -> delivered, changed_by the caller, with
\* note 'Buyer confirmed delivery' for the buyer, and each announces 'delivered'
\* for the order.
C20_Step ==
    /\ \A c \in ConfirmReqs :
            LET r == confirmReq[c]
            IN  /\ (r.pc = "update" /\ confirmReq'[c].pc = "history") =>
                        /\ orders[r.orderId].status = "in_transit"
                        /\ orders'[r.orderId] = StatusUpdate(orders[r.orderId], "delivered")
                        /\ orders'[r.orderId].status = "delivered"
                        /\ orders'[r.orderId].delivered_at # {}
                        /\ orders'[r.orderId].payout_date # {}
                        /\ orders'[r.orderId].payout_status = "scheduled"
                /\ (r.pc = "history" /\ confirmReq'[c].pc = "notify") =>
                        /\ Len(history') = Len(history) + 1
                        /\ Transition(history'[Len(history')]) =
                                [order_id |-> r.orderId, old_status |-> "in_transit",
                                 new_status |-> "delivered"]
                        /\ history'[Len(history')].changed_by = orders[r.orderId].buyer_id
                        /\ history'[Len(history')].notes = "Buyer confirmed delivery"
                /\ (r.pc = "notify" /\ confirmReq'[c].pc = "done"
                        /\ confirmReq'[c].res.success) =>
                        /\ \E n \in sent' : n.order_id = r.orderId /\ n.status = "delivered"
                        /\ Cardinality(sent' \ sent) <= 1
                        /\ UNCHANGED <<orders, history>>
    /\ \A u \in UpdateReqs :
            LET r == updateReq[u]
            IN  (UpdateCommits(u) /\ r.status = "delivered") =>
                    /\ orders[r.orderId].status = "in_transit"
                    /\ orders'[r.orderId] = DeliveredUpdate(orders[r.orderId])
                    /\ Len(history') = Len(history) + 1
                    /\ Transition(history'[Len(history')]) =
                            [order_id |-> r.orderId, old_status |-> "in_transit",
                             new_status |-> "delivered"]
                    /\ OwnsAsSeller(history'[Len(history')].changed_by, r.orderId)
                    /\ \E n \in sent' : n.order_id = r.orderId /\ n.status = "delivered"

Paid(reference) ==
    \E t \in gateway : t.reference = reference /\ t.status = "success"

\* Every shop group of the intent has its order and every line its item.
Materialized(reference) ==
    /\ HasIntent(reference)
    /\ Cardinality(OrderIdsOf(reference)) = Len(IntentOf(reference).orders)
    /\ \A g \in DOMAIN IntentOf(reference).orders :
            \E o \in OrderIdsOf(reference) :
                /\ orders[o].seller_id = IntentOf(reference).orders[g].sellerId
                /\ ItemsOfOrder(o) = IntentOf(reference).orders[g].items

\* A verifyPayment request fails between BEGIN and COMMIT.
VerifyFails(v) ==
    /\ verifyReq[v].pc \in {"order", "item", "stock", "cart", "commit"}
    /\ verifyReq'[v].pc = "done"
    /\ ~verifyReq'[v].res.success

C21_Step ==
    \A v \in VerifyReqs, reference \in Refs :
        /\ (VerifyFails(v) /\ verifyReq[v].reference = reference
                /\ OrderIdsOf(reference) = {}) =>
                {o \in DOMAIN orders' : orders'[o].paystack_reference = reference} = {}
        /\ (VerifyStarts(v, reference) /\ Paid(reference)
                /\ OrderIdsOf(reference) = {}) =>
                verifyReq'[v].pc = "gateway"
        /\ (VerifyCommits(v) /\ verifyReq[v].reference = reference) =>
                Materialized(reference)'

\* C21: when the payment of a reference is successful and a verifyPayment
\* attempt for it fails before commit, no order exists for it; a later call
\* for the reference runs the materialization again, and an attempt that
\* commits leaves the orders of every shop group with their items.  When the
\* handler runs on, the client calls again and the failures stop, the orders
\* of a paid reference are eventually created.
C21_RecoveryByRetry ==
    /\ [][C21_Step]_vars
    /\ \A reference \in Refs : Paid(reference) ~> Materialized(reference)

C21_Witness ==
    \E reference \in Refs, failed \in VerifyReqs, retried \in VerifyReqs :
        /\ verifyReq[failed].pc = "done"
        /\ verifyReq[failed].reference = reference
        /\ verifyReq[failed].res.message = "Failed to verify payment"
        /\ verifyReq[failed].metadata.orders # <<>>
        /\ verifyReq[retried].pc = "done"
        /\ verifyReq[retried].reference = reference
        /\ verifyReq[retried].res.message = "Payment verified and orders created"
        /\ Materialized(reference)

\* The gateway's answer is read and found wanting, or there is none.
VerifyUnpaid(v, reference) ==
    /\ verifyReq[v].pc = "gateway"
    /\ verifyReq[v].reference = reference
    /\ ~Paid(reference)
    /\ verifyReq'[v] # verifyReq[v]

\* C22: when no order exists for a reference and the gateway reports a
\* failure, does not know the reference, or reports a status other than
\* 'success', verifyPayment answers with an error and the call ends there:
\* no order, no order item, no quantity_available and no cart has changed.
C22_UnverifiedCreatesNothing ==
    [][\A v \in VerifyReqs, reference \in Refs :
        /\ (VerifyStarts(v, reference) /\ OrderIdsOf(reference) = {}) =>
                UNCHANGED <<orders, order_items, quantity_available, cart>>
        /\ VerifyUnpaid(v, reference) =>
                /\ verifyReq'[v].pc = "done"
                /\ ~verifyReq'[v].res.success
                /\ verifyReq'[v].res.message \in
                        {"Payment verification failed", "Failed to verify payment"}
                /\ verifyReq'[v].res.orders = {}
                /\ UNCHANGED <<orders, order_items, quantity_available, cart>>
        /\ (verifyReq[v].pc = "done" /\ ~verifyReq[v].res.success
                /\ verifyReq'[v] # verifyReq[v]) =>
                /\ verifyReq'[v].pc = "idle"
                /\ UNCHANGED <<orders, order_items, quantity_available, cart>>]_vars

C22_Witness ==
    \E v \in VerifyReqs, reference \in Refs, other \in Refs :
        /\ verifyReq[v].pc = "done"
        /\ verifyReq[v].reference = reference
        /\ verifyReq[v].res.message = "Payment verification failed"
        /\ HasIntent(reference) /\ ~Paid(reference)
        /\ OrderIdsOf(reference) = {}
        /\ OrderIdsOf(other) # {}
        /\ \E userId \in Buyers : cart[userId] # {}

\* A createOrder call answers.
CreateAnswers ==
    /\ createReq.pc = "idle"
    /\ createReq'.pc = "done"

OrderIdsOfNext(reference) ==
    {o \in DOMAIN orders' : orders'[o].paystack_reference = reference}

\* C23: a createOrder call, accepted or rejected, leaves the orders, the
\* order items, every quantity_available and every cart as they were, and so
\* does its response; the set of order rows of a reference changes only in
\* the step in which a settlement of that reference commits.
C23_CheckoutPersistsNothing ==
    [][/\ (CreateAnswers \/ createReq.pc = "done") =>
            UNCHANGED <<orders, order_items, quantity_available, cart>>
       /\ \A reference \in Refs :
            OrderIdsOfNext(reference) # OrderIdsOf(reference) =>
                \E v \in VerifyReqs :
                    VerifyCommits(v) /\ verifyReq[v].reference = reference]_vars

C23_Witness ==
    \E userId \in Buyers :
        /\ createReq.pc = "done"
        /\ createReq.res.success
        /\ createReq.res.reference = <<now, userId>>
        /\ OrderIdsOf(createReq.res.reference) = {}
        /\ cart[userId] # {}
        /\ orders # <<>>

\* The request bodies the validation is to turn away: no group list or an
\* empty one, a group without items or with an empty items array, a delivery
\* name, phone or address that is missing.
InputInvalid(body) ==
    \/ "orders" \notin DOMAIN body
    \/ body.orders = <<>>
    \/ \E g \in DOMAIN body.orders :
            \/ "items" \notin DOMAIN body.orders[g]
            \/ body.orders[g].items = <<>>
    \/ "deliveryDetails" \notin DOMAIN body
    \/ \E field \in {"name", "phone", "address"} :
            \/ field \notin DOMAIN body.deliveryDetails
            \/ body.deliveryDetails[field] = ""

ValidationErrors == {"invalid_order_data", "delivery_details_required"}

\* C24: createOrder answers a request body with no or an empty group list,
\* with a group whose items array is empty or missing, or with a delivery
\* name, phone or address missing, with a validation error, and does not
\* call the payment gateway.
C24_InputValidation ==
    [][(CreateAnswers /\ InputInvalid(createReq'.body)) =>
            /\ ~createReq'.res.success
            /\ createReq'.res.status = 400
            /\ createReq'.res.message \in ValidationErrors
            /\ ~createReq'.called
            /\ UNCHANGED gateway]_vars

\* The lines of a request body, each with the seller of its group.
LinesOf(body) ==
    UNION {{[sellerId |-> body.orders[g].sellerId, item |-> body.orders[g].items[i]] :
                i \in DOMAIN body.orders[g].items} : g \in DOMAIN body.orders}

\* A seller of the body is not in the sellers table.
SellerMissing(body) ==
    \E g \in DOMAIN body.orders :
        ~ \E s \in DOMAIN sellers : sellers[s].id = body.orders[g].sellerId

\* No live product of the line's seller has the line's product id.
LineProductMissing(line) ==
    ~ \E p \in DOMAIN products :
        /\ products[p].id = line.item.productId
        /\ products[p].seller_id = line.sellerId
        /\ products[p].deleted_at = "null"

ProductMissing(body) == \E line \in LinesOf(body) : LineProductMissing(line)

\* A line asks for more units than the product has now.
StockShort(body) ==
    \E line \in LinesOf(body) :
        /\ line.item.productId \in DOMAIN quantity_available
        /\ line.item.quantity > quantity_available[line.item.productId]

\* Stored price times quantity, summed over the lines of a group.
RECURSIVE StoredTotal(_)
StoredTotal(items) ==
    IF items = <<>> THEN 0
    ELSE LET stored == {products[p].price : p \in
                    {q \in DOMAIN products : products[q].id = Head(items).productId}}
         IN  (IF stored = {} THEN 0 ELSE (CHOOSE price \in stored : TRUE))
                * Head(items).quantity
             + StoredTotal(Tail(items))

UnderMinimum(body) ==
    \E g \in DOMAIN body.orders : StoredTotal(body.orders[g].items) < 4000

NotFoundErrors == {"seller_not_found", "product_not_found"}

OtherwiseValid(body) ==
    /\ ~InputInvalid(body)
    /\ ~SellerMissing(body)
    /\ ~ProductMissing(body)
    /\ ~StockShort(body)

\* C26: a request body that is valid otherwise is rejected with the
\* minimum-order error exactly when the stored prices times the quantities
\* of at least one shop group add up to less than 4000, whatever the
\* combined total; a body whose groups all reach 4000 passes on to the
\* gateway.
C26_MinimumOrder ==
    [][(CreateAnswers /\ OtherwiseValid(createReq'.body)) =>
        LET body == createReq'.body
        IN  /\ UnderMinimum(body) <=>
                    (createReq'.res.message = "minimum_order"
                        /\ createReq'.res.status = 400)
            /\ UnderMinimum(body) => (~createReq'.called /\ UNCHANGED gateway)
            /\ ~UnderMinimum(body) =>
                /\ createReq'.called
                /\ \/ createReq'.res.success
                   \/ /\ GatewayHas(Reference(createReq'.userId))
                      /\ createReq'.res.message = "failed_to_create_order"]_vars

C26_Witness ==
    /\ createReq.pc = "done"
    /\ createReq.res.message = "minimum_order"
    /\ Len(createReq.body.orders) = 2
    /\ \E t \in gateway : t.metadata.totalAmount = 4000
    /\ \E t \in gateway : t.metadata.totalAmount = 5000

\* The request body with every line's price replaced by what a client may send.
Repriced(body, price) ==
    [body EXCEPT !.orders =
        [g \in DOMAIN body.orders |->
            [body.orders[g] EXCEPT !.items =
                [i \in DOMAIN body.orders[g].items |->
                    [body.orders[g].items[i] EXCEPT !.price = price]]]]]

ClientPrices == {0, 20, 2500, 4000, 100000}

\* The stored price of a product.
StoredPrice(productId) ==
    products[CHOOSE p \in DOMAIN products : products[p].id = productId].price

\* C27: for every accepted checkout each group's orderTotal is the sum over
\* its lines of stored price times quantity, every item of the snapshot
\* carries the stored price, and the amount sent to the gateway (in kobo) is
\* the sum of the orderTotals; whatever price the client puts on the lines,
\* the answer and the session sent to the gateway are the same.
C27_ServerSideTotals ==
    [][(CreateAnswers /\ ~InputInvalid(createReq'.body)) =>
        LET body == createReq'.body
            userId == createReq'.userId
        IN  /\ createReq'.res.success =>
                \E t \in gateway' :
                    /\ t.reference = createReq'.res.reference
                    /\ Len(t.metadata.orders) = Len(body.orders)
                    /\ \A g \in DOMAIN body.orders :
                        /\ t.metadata.orders[g].orderTotal =
                                StoredTotal(body.orders[g].items)
                        /\ \A i \in DOMAIN body.orders[g].items :
                            LET line == t.metadata.orders[g].items[i]
                                price == StoredPrice(body.orders[g].items[i].productId)
                            IN  /\ line.productPrice = price
                                /\ line.subtotal = price * line.quantity
                                /\ line.quantity = body.orders[g].items[i].quantity
                    /\ t.metadata.totalAmount =
                            SumSeq([g \in DOMAIN body.orders |->
                                        StoredTotal(body.orders[g].items)])
                    /\ t.amount = 100 * t.metadata.totalAmount
                    /\ createReq'.res.amount = t.metadata.totalAmount
            /\ \A price \in ClientPrices, accepts \in BOOLEAN :
                    createReq' = CreateStarted(userId, body, accepts) =>
                        /\ CreateStarted(userId, Repriced(body, price), accepts) =
                                [createReq' EXCEPT !.body = Repriced(body, price)]
                        /\ createReq'.res.success =>
                                Session(userId, Repriced(body, price)) \in gateway']_vars

C27_Witness ==
    /\ createReq.pc = "done"
    /\ createReq.res.success
    /\ createReq.body.orders[1].items[1].price = 20
    /\ createReq.res.amount = 5000
    /\ \E t \in gateway :
            /\ t.reference = createReq.res.reference
            /\ t.amount = 500000
            /\ t.metadata.orders[1].items[1].productPrice = 2500

\* C28: every successful createOrder call is given a payment reference that
\* no checkout intent before it holds, so that no two checkout intents share
\* one idempotency key.
C28_ReferencesUnique ==
    [][(CreateAnswers /\ createReq'.res.success) =>
            ~GatewayHas(createReq'.res.reference)]_vars

\* The rows of order_items' that belong to an order.
ItemsOfOrderNext(o) == SelectSeq(order_items', LAMBDA row : row.order_id = o)

C29_Step ==
    /\ \A v \in VerifyReqs :
        VerifyCommits(v) =>
            LET reference == verifyReq[v].reference
                groups == IntentOf(reference).orders
            IN  /\ Len(orders') = Len(orders) + Len(groups)
                /\ \A g \in DOMAIN groups :
                    LET o == Len(orders) + g
                    IN  /\ orders'[o].id = o
                        /\ orders'[o].seller_id = groups[g].sellerId
                        /\ orders'[o].buyer_id = IntentOf(reference).userId
                        /\ orders'[o].status = "pending"
                        /\ orders'[o].payment_status = "paid"
                        /\ orders'[o].paystack_reference = reference
                        /\ Len(ItemsOfOrderNext(o)) = Len(groups[g].items)
                        /\ \A i \in DOMAIN groups[g].items :
                            /\ ItemsOfOrderNext(o)[i].product_id =
                                    groups[g].items[i].productId
                            /\ ItemsOfOrderNext(o)[i].quantity =
                                    groups[g].items[i].quantity
                /\ Len(order_items') = Len(order_items)
                        + SumSeq([g \in DOMAIN groups |-> Len(groups[g].items)])
    /\ Len(orders') >= Len(orders)
    /\ \A o \in DOMAIN orders :
        /\ orders'[o].id = orders[o].id
        /\ orders'[o].paystack_reference = orders[o].paystack_reference
        /\ orders'[o].seller_id = orders[o].seller_id
    /\ Len(orders') # Len(orders) => \E v \in VerifyReqs : VerifyCommits(v)

\* C29: a settlement that commits creates exactly one order per shop group
\* of the checkout intent and exactly one order item per line of the group;
\* each order is created pending and paid and carries the payment reference
\* of the settlement.  No step but the commit of a verifyPayment adds a row
\* to the orders table, and no step takes one away.
C29_OrderCreationShape == [][C29_Step]_vars

C29_Witness ==
    \E v \in VerifyReqs :
        /\ verifyReq[v].pc = "done"
        /\ verifyReq[v].res.message = "Payment verified and orders created"
        /\ Len(IntentOf(verifyReq[v].reference).orders) = 2
        /\ Cardinality(OrderIdsOf(verifyReq[v].reference)) = 2
        /\ Len(order_items) = 3

C30_Step ==
    \A v \in VerifyReqs :
        /\ VerifyCommits(v) =>
            /\ OrderIdsOfNext(verifyReq[v].reference) # {}
            /\ cart'[verifyReq[v].metadata.userId] = {}
            /\ \A userId \in Buyers \ {verifyReq[v].metadata.userId} :
                    cart'[userId] = cart[userId]
        /\ (verifyReq'[v] # verifyReq[v] /\ ~VerifyCommits(v)) => UNCHANGED cart

\* C30: when a verifyPayment call commits orders, the cart of the buyer of
\* the checkout is empty afterwards and the other carts are as before; no
\* other step of a verifyPayment call, in particular none of a call that
\* fails or that answers through the idempotency guard, deletes a cart item.
C30_CartClearing == [][C30_Step]_vars

C30_Witness ==
    \E v \in VerifyReqs :
        /\ verifyReq[v].pc = "done"
        /\ verifyReq[v].res.message = "Payment already verified"
        /\ \E o \in OrderIdsOf(verifyReq[v].reference) :
                cart[orders[o].buyer_id] # {}

C31_State ==
    /\ \A o \in DOMAIN orders : orders[o].status # "cancelled"
    /\ \A u \in UpdateReqs :
            updateReq[u].status = "cancelled" => updateReq[u].pc = "read"

C31_Step ==
    \A u \in UpdateReqs :
        (UpdateReads(u) /\ updateReq[u].status = "cancelled") =>
            /\ updateReq'[u].pc = "done"
            /\ ~updateReq'[u].res.success
            /\ updateReq'[u].res.message = "Cannot change status"
            /\ UNCHANGED <<orders, history, sent>>

\* C31: no order ever has status cancelled, whatever createOrder,
\* verifyPayment, updateOrderStatus and confirmDelivery calls have run; an
\* updateOrderStatus call asking for cancelled is refused at the legality
\* check, whatever the current status of the order, and writes nothing.
C31_CancelledUnreachable == []C31_State /\ [][C31_Step]_vars

C31_Witness ==
    \E u \in UpdateReqs :
        /\ updateReq[u].pc = "read"
        /\ updateReq[u].status = "cancelled"
        /\ updateReq[u].orderId \in DOMAIN orders
        /\ orders[updateReq[u].orderId].seller_id = updateReq[u].sellerId
        /\ orders[updateReq[u].orderId].status = "in_transit"

\* Units of a product over the rows of the order_items table.
RECURSIVE SoldUnits(_, _)
SoldUnits(rows, productId) ==
    IF rows = <<>> THEN 0
    ELSE (IF Head(rows).product_id = productId THEN Head(rows).quantity ELSE 0)
         + SoldUnits(Tail(rows), productId)

C32_State ==
    \A p \in ProductIds :
        InitialStock[p] - quantity_available[p] = SoldUnits(order_items, p)

C32_Step ==
    /\ quantity_available' # quantity_available =>
            \E v \in VerifyReqs : VerifyCommits(v)
    /\ order_items' # order_items => \E v \in VerifyReqs : VerifyCommits(v)
    /\ (CreateAnswers
            \/ \E u \in UpdateReqs : updateReq'[u] # updateReq[u]
            \/ \E c \in ConfirmReqs : confirmReq'[c] # confirmReq[c]) =>
                UNCHANGED <<quantity_available, order_items>>

\* C32: in every state, for every product, what quantity_available has lost
\* since the start is the sum of the product's quantities over the order
\* items in the table: no decrement without its items and no items without
\* their decrement.  quantity_available and the order items change only in
\* the step in which a settlement commits; no step of createOrder,
\* updateOrderStatus or confirmDelivery changes them.
C32_InventoryLedger == []C32_State /\ [][C32_Step]_vars

C32_Witness ==
    /\ quantity_available[1] = InitialStock[1] - 2
    /\ SoldUnits(order_items, 1) = 2
    /\ \E o \in DOMAIN orders : orders[o].status = "processing"

\* Rows of the history that record an order's arrival at a status.
ArrivalsAt(o, status) ==
    {k \in DOMAIN history :
        history[k].order_id = o /\ history[k].new_status = status}

\* C33: when the seller's updateOrderStatus(delivered) and the buyer's
\* confirmDelivery meet on one in_transit order, one of them alone applies
\* the transition: the history holds at most one row with new_status
\* delivered for the order and at most one 'delivered' notification is sent
\* for it.
C33_DeliveryRace ==
    \A o \in DOMAIN orders :
        /\ Cardinality(ArrivalsAt(o, "delivered")) <= 1
        /\ Cardinality({n \in sent : n.order_id = o /\ n.status = "delivered"}) <= 1

\* The rows of the order are a path of the transition table from pending to
\* the order's status, each written by the order's seller or buyer.
HistoryChain(o) ==
    LET h == HistoryOf(o)
    IN  /\ h # <<>> => h[1].old_status = "pending"
        /\ \A k \in DOMAIN h :
            /\ <<h[k].old_status, h[k].new_status>> \in LegalEdges
            /\ \/ OwnsAsSeller(h[k].changed_by, o)
               \/ h[k].changed_by = orders[o].buyer_id
        /\ \A k \in 1..(Len(h) - 1) : h[k + 1].old_status = h[k].new_status
        /\ orders[o].status = IF h = <<>> THEN "pending" ELSE h[Len(h)].new_status

\* C34: for every order, its history rows in insertion order start from
\* pending, are each an edge of the transition table, each continue from the
\* row before, end at the order's current status, and are each changed_by the
\* user of the order's seller or by the order's buyer; stated here for the
\* states in which no request is in flight.
C34_HistoryChain ==
    Quiet => \A o \in DOMAIN orders : HistoryChain(o)

\* The columns a status transition may write.
TransitionColumns ==
    {"status", "ready_for_pickup_at", "shipped_at", "delivered_at",
     "payout_date", "payout_status", "updated_at"}

\* Every order but o, and every other column of o, is as it was.
OrdersFrame(o) ==
    /\ DOMAIN orders' = DOMAIN orders
    /\ \A i \in DOMAIN orders :
            \A f \in DOMAIN orders[i] :
                (i # o \/ f \notin TransitionColumns) => orders'[i][f] = orders[i][f]

\* The history has gained one row, of order o, and lost none.
HistoryGainsRow(o, status) ==
    /\ Len(history') = Len(history) + 1
    /\ SubSeq(history', 1, Len(history)) = history
    /\ history'[Len(history')].order_id = o
    /\ history'[Len(history')].new_status = status

C35_Step ==
    /\ \A u \in UpdateReqs :
            LET r == updateReq[u]
            IN  /\ UpdateCommits(u) =>
                        /\ OrdersFrame(r.orderId)
                        /\ orders'[r.orderId].status = r.status
                        /\ HistoryGainsRow(r.orderId, r.status)
                        /\ UNCHANGED <<order_items, quantity_available, cart>>
                /\ (updateReq'[u] # r /\ ~UpdateCommits(u)) => UNCHANGED dbVars
    /\ \A c \in ConfirmReqs :
            LET r == confirmReq[c]
                r2 == confirmReq'[c]
            IN  /\ (r.pc = "update" /\ r2.pc = "history") =>
                        /\ OrdersFrame(r.orderId)
                        /\ orders'[r.orderId].status = "delivered"
                        /\ UNCHANGED <<history, order_items, quantity_available, cart>>
                /\ (r.pc = "history" /\ r2.pc = "notify") =>
                        /\ HistoryGainsRow(r.orderId, "delivered")
                        /\ UNCHANGED <<orders, order_items, quantity_available, cart>>
                /\ (r2 # r /\ ~(r.pc = "update" /\ r2.pc = "history")
                           /\ ~(r.pc = "history" /\ r2.pc = "notify")) =>
                        UNCHANGED dbVars
                /\ (r2 # r /\ r2.pc = "history") => r.pc = "update"
                /\ (r2 # r /\ r2.pc = "notify") => r.pc = "history"
                /\ (r2 # r /\ r2.pc = "done" /\ r2.res.success) => r.pc = "notify"

\* C35: a successful updateOrderStatus writes, at its commit, only the
\* status, milestone timestamps, payout fields and updated_at of its order
\* and appends one history row of that order; a successful confirmDelivery
\* does the same in two statements, the UPDATE and then the INSERT, each
\* passed exactly once on the way to its success response.  Every other
\* column of the order (buyer, seller, amounts, payment status, payment
\* reference, delivery name, phone, address and notes), every other order,
\* the order items, every product's stock and every cart stay as they were,
\* and no other step of either handler writes to the database.
C35_FrameOfTransition == [][C35_Step]_vars

C35_Witness ==
    \E o \in DOMAIN orders :
        /\ orders[o].status = "delivered"
        /\ orders[o].payment_status = "paid"
        /\ orders[o].notes = "Call first"
        /\ orders[o].delivery_name = "Ada"
        /\ \E i, j \in DOMAIN history :
                /\ history[i].order_id = o
                /\ history[i].new_status = "in_transit"
                /\ history[i].notes = "null"
                /\ history[j].order_id = o
                /\ history[j].notes = "Buyer confirmed delivery"
        /\ \E c \in ConfirmReqs : confirmReq[c].pc = "done" /\ confirmReq[c].res.success

\* a + b of two fees as JavaScript numbers.
FeePlus(a, b) ==
    LET n == a.n + b.n
        k == Binade(n)
        sa == k - a.k
        sb == k - b.k
        s == IF sa > sb THEN sa ELSE sb
        r == Residue(n, k)
        num == r * Pow2(s) + a.e * Pow2(s - sa) + b.e * Pow2(s - sb)
        den == 5 * Pow2(s)
        m0 == num \div den
        rem == num - m0 * den
        m == IF 2 * rem > den THEN m0 + 1
             ELSE IF 2 * rem < den THEN m0
             ELSE IF (r + m0) % 2 = 0 THEN m0 ELSE m0 + 1
    IN  [n |-> n, e |-> 5 * m - r, k |-> k]

\* The sum of the platform_fee values of the orders, added up as numbers.
StoredFeeSum ==
    IF Len(feeCalc.platform_fee) = 1 THEN feeCalc.platform_fee[1]
    ELSE FeePlus(feeCalc.platform_fee[1], feeCalc.platform_fee[2])

\* The sum of two stored fees, taken exactly, is the fee t.
ExactSumIs(a, b, t) ==
    LET sa == t.k - a.k
        sb == t.k - b.k
        s == IF sa > sb THEN sa ELSE sb
    IN  /\ a.n + b.n = t.n
        /\ a.e * Pow2(s - sa) + b.e * Pow2(s - sb) = t.e * Pow2(s)

\* C36: for every settled checkout the platformFee computed by createOrder on
\* the combined total equals the sum of the platform_fee values verifyPayment
\* stored on the orders, whether that sum is taken in the code's numbers or
\* exactly, and the orders' total_amount add up to the totalAmount charged.
C36_FeeAgreement ==
    feeCalc.pc = "settled" =>
        /\ SumSeq(feeCalc.orderTotals) = feeCalc.totalAmount
        /\ \/ StoredFeeSum = feeCalc.platformFee
           \/ /\ Len(feeCalc.platform_fee) = 2
              /\ ExactSumIs(feeCalc.platform_fee[1], feeCalc.platform_fee[2],
                            feeCalc.platformFee)

\* A settled checkout of two shops whose fees agree.
C36_Agreeing ==
    /\ feeCalc.pc = "settled"
    /\ feeCalc.orderTotals = <<4000, 4020>>
    /\ StoredFeeSum = feeCalc.platformFee

\* C37: in every reachable state no two orders have the same order_number,
\* two orders of one seller created within the same clock tick included.
C37_OrderNumbersUnique ==
    \A i, j \in DOMAIN orders :
        i # j => orders[i].order_number # orders[j].order_number

\* All items of the cart belong to one seller.
OneShop(userId) ==
    \A c, d \in cart[userId] :
        SellerOfProduct(c.product_id) = SellerOfProduct(d.product_id)

\* C38: after any interleaving of addToCart, updateCartItem, removeFromCart
\* and clearCart requests, all items in a user's cart belong to one seller.
C38_ShopIsolation == \A userId \in Buyers : OneShop(userId)

\* C39: since the login each guest item has been sent to the server cart
\* (cartService.addToCart) at most once, counting the transfer started by
\* initializeCart and the one started by checkAuthAndTransferCart together.
C39_TransferredOnce == \A p \in ProductIds : cartContext.sent[p] <= 1

====
